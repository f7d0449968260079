-------------------------- MODULE SubscriptionOps --------------------------
(***************************************************************************)
(* One Yellowstone subscription handle (src/src/yellowstone/               *)
(* subscribeAccounts.ts, subscribeToAccounts): the stream, the two flags   *)
(* that guard the settlement of `done`, and the inactivity timer.          *)
(*                                                                         *)
(* st follows the underlying Node Duplex stream: "silent" is a stream      *)
(* whose server is gone without a word, "failing", "ended" and "closing"   *)
(* are streams with an 'error', 'end' or 'close' event still to emit.      *)
(***************************************************************************)
EXTENDS Naturals

Streams == {"none", "open", "silent", "failing", "ended", "closing", "closed"}

\* What `done` settled to: "invalid" and "failed" are rejections, told apart
\* by the text of the error.
Outcomes == {"pending", "resolved", "failed", "invalid"}

Sub == [st : Streams, error : {"failed", "invalid"}, settled : Outcomes,
        closeRequested : BOOLEAN, armed : BOOLEAN]

NoSub == [st |-> "none", error |-> "failed", settled |-> "pending",
          closeRequested |-> FALSE, armed |-> FALSE]

\* The request is written and the inactivity timeout started.
Opened == [NoSub EXCEPT !.st = "open", !.armed = TRUE]

Live(s) == s.st \in {"open", "silent"}

\* Any message, pings included, restarts the timeout.
OnData(s) == [s EXCEPT !.armed = TRUE]

\* settleResolve and settleReject: only the first settlement counts.
Settle(s, outcome) ==
  IF s.settled # "pending" THEN s
  ELSE [s EXCEPT !.settled = outcome, !.armed = FALSE]

\* Node: destroy(err) emits 'error' and then 'close'; destroy() only 'close';
\* a stream that is already destroyed ignores both.
Destroy(s) == IF Live(s) \/ s.st = "ended" THEN [s EXCEPT !.st = "closing"] ELSE s
DestroyWith(s, err) == IF Live(s) THEN [s EXCEPT !.st = "failing", !.error = err] ELSE s

\* The timer callback. A plausible slip settles `done` and forgets the stream.
OnInactiveLeaving(s) == Settle(s, "failed")
OnInactiveIgnored(s) == [s EXCEPT !.armed = FALSE]
OnInactive(s) ==
  LET fired == [s EXCEPT !.armed = FALSE]
  IN  IF s.closeRequested THEN fired ELSE DestroyWith(fired, "failed")

\* handle.close()
CloseQuietly(s) == [s EXCEPT !.closeRequested = TRUE, !.armed = FALSE]
Close(s) == IF s.closeRequested THEN s ELSE Destroy(CloseQuietly(s))

\* The 'error', 'end' and 'close' listeners.
OnError(s) == [Settle(s, s.error) EXCEPT !.st = "closing"]
OnEnd(s)   == [Settle(s, "resolved") EXCEPT !.st = "closing"]
OnClose(s) == [Settle(s, "resolved") EXCEPT !.st = "closed"]
=============================================================================
