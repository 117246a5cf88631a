--------------------------- MODULE BridgeProperties ---------------------------
(* What the bridge owes the user of a channel.                                 *)
EXTENDS Bridge

(* "Process queued requests for a sender in order": two requests of a user     *)
(* never run at once, whichever channels they come from, and the worker that   *)
(* runs is the one that new messages see.                                      *)
OneWorker ==
  \A v, w \in Workers : worker[v].at # "gone" /\ worker[w].at # "gone" => v = w /\ current = w

(* A Telegram message is never begun while an earlier one waits or is still    *)
(* to come, although a bot that crashed is delivered the same updates again.   *)
InOrder ==
  [][\A w \in Workers : At(w, "start")' /\ ~ At(w, "start") =>
       \A m \in Telegram : m < worker'[w].req.msg /\ worker'[w].req.msg \in Telegram => m \in settled']_vars

(* "Got it - switching to your latest request": a request that was interrupted *)
(* sends no more than it had in hand when the interrupt came: the pieces that  *)
(* were on their way and what its buffer held.                                 *)
InterruptTakesEffect == \A w \in Workers : worker[w].owed >= 0

(* Requests wait without a worker only when the last one died of an error that *)
(* it could not report: no message falls between a worker that ends and the    *)
(* next.                                                                       *)
QueueIsWorked == queue # <<>> /\ ~ Live(current) => stranded

(* Updates are delivered again until their batch is done: every Telegram       *)
(* message reaches process, through crashes of the bot and restarts.           *)
EveryUpdateHandled == \A m \in Telegram : m <= sent ~> m \in handled

(* A request that was taken over is answered, replaced by an interrupt, or     *)
(* lost with the process, unless its worker dies.                              *)
RequestsSettle == \A m \in Messages : m \in handled ~> m \in settled \/ stranded
==============================================================================
