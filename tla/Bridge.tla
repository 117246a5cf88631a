-------------------------------- MODULE Bridge --------------------------------
(* The bridge between chat channels and the agent service: one user, linked to *)
(* a Telegram chat (polled) and a WhatsApp number (webhooks), whose requests   *)
(* share one queue and one worker.  Everything runs on one event loop, so an   *)
(* action extends from one await to the next.  The conversation that a request *)
(* belongs to and the texts are left out.                                      *)
EXTENDS Integers, Sequences, FiniteSets

CONSTANTS
  MaxTelegram,  \* messages the user sends on Telegram, numbered from 1
  MaxWebhooks,  \* webhook calls with one WhatsApp message each, numbered after them
  MaxEvents,    \* bound of the model: events of an answer's stream
  MaxFaults,    \* bound of the model: calls to a channel or to the agent service that fail
  MaxRestarts,  \* bound of the model: restarts of the process
  MaxWorkers    \* bound of the model: coroutines of the user's worker at a time

Telegram == 1..MaxTelegram
Webhooks == (MaxTelegram + 1)..(MaxTelegram + MaxWebhooks)
Messages == Telegram \cup Webhooks
Workers  == 1..MaxWorkers
BotCall  == 0                      \* the bot's own call of process
Callers  == {BotCall} \cup Webhooks

ASSUME BridgeAssumption ==
  /\ MaxTelegram \in Nat /\ MaxWebhooks \in Nat /\ MaxEvents \in Nat /\ MaxFaults \in Nat
  /\ MaxRestarts \in Nat /\ MaxWorkers \in Nat \ {0}

VARIABLES
  sent,      \* Telegram messages sent so far
  confirmed, \* Telegram's own record: updates up to here are not delivered again
  bot,       \* TelegramBot: is it up, which client it has, the batch it is at
  call,      \* the calls of MessageProcessor.process, one per caller
  queue,     \* _sender_queues of the user
  worker,    \* its worker coroutines
  current,   \* _sender_workers of the user, 0 for none
  cancels,   \* _sender_cancels: whose event, 0 for none
  faults, restarts,
  handled,   \* history: messages that process has queued or answered
  settled,   \* history: messages that were answered, replaced, or lost with the process
  stranded   \* history: the last worker died with requests in the queue

vars == <<sent, confirmed, bot, call, queue, worker, current, cancels, faults, restarts, handled, settled, stranded>>

Requests  == [msg: Messages, client: Nat]
NoRequest == [msg |-> 0, client |-> 0]
Gone == [at |-> "gone", req |-> NoRequest, cancelled |-> FALSE, buffer |-> FALSE,
         pieces |-> 0, left |-> 0, refreshed |-> FALSE, owed |-> 0]

BridgeTypeOK ==
  /\ sent \in 0..MaxTelegram /\ confirmed \in 0..MaxTelegram
  /\ bot \in [up: BOOLEAN, client: Nat, next: Nat, last: 0..MaxTelegram]
  /\ call \in [Callers -> {"none", "accept", "notice", "closing", "closed"}]
  /\ call[BotCall] \in {"accept", "notice"} => bot.up /\ bot.next \in Telegram
  /\ queue \in Seq(Requests)
  /\ worker \in [Workers -> [at: {"gone", "new", "start", "stream", "send", "tell", "end"}, req: Requests \cup {NoRequest},
                             cancelled: BOOLEAN, buffer: BOOLEAN, pieces: 0..2, left: 0..MaxEvents,
                             refreshed: BOOLEAN, owed: Int]]
  /\ \A w \in Workers : worker[w].at \notin {"gone", "new"} => worker[w].req \in Requests
  /\ current \in 0..MaxWorkers /\ cancels \in 0..MaxWorkers
  /\ faults \in 0..MaxFaults /\ restarts \in 0..MaxRestarts
  /\ handled \subseteq Messages /\ settled \subseteq Messages /\ stranded \in BOOLEAN

Init ==
  /\ sent = 0 /\ confirmed = 0
  /\ bot = [up |-> TRUE, client |-> 1, next |-> 0, last |-> 0]
  /\ call = [c \in Callers |-> "none"]
  /\ queue = <<>> /\ worker = [w \in Workers |-> Gone] /\ current = 0 /\ cancels = 0
  /\ faults = 0 /\ restarts = 0 /\ handled = {} /\ settled = {} /\ stranded = FALSE

(* The clients of a request live as long as the bot or the webhook call.       *)
Open(q) ==
  IF q.msg \in Webhooks THEN call[q.msg] # "closed" ELSE bot.up /\ q.client = bot.client

Fault == faults < MaxFaults /\ faults' = faults + 1
Healthy == UNCHANGED faults
(* A call through the clients of a request that fails.                         *)
Fails(q) == (~ Open(q) /\ Healthy) \/ Fault
Queued == {queue[i].msg : i \in DOMAIN queue}

------------------------------------------------------------------------------
(* Messages arrive.  TelegramClient.poll_messages asks for updates after those *)
(* of its last batch, which Telegram then forgets; a new client asks for all.  *)
Send ==
  /\ sent < MaxTelegram /\ sent' = sent + 1
  /\ UNCHANGED <<confirmed, bot, call, queue, worker, current, cancels, faults, restarts, handled, settled, stranded>>

(* Mutant: Telegram forgets a batch when it is delivered.                      *)
PollAndForget ==
  /\ bot.up /\ call[BotCall] = "none" /\ confirmed < sent
  /\ confirmed' = sent
  /\ bot' = [bot EXCEPT !.next = confirmed + 1, !.last = sent]
  /\ call' = [call EXCEPT ![BotCall] = "accept"]
  /\ UNCHANGED <<sent, queue, worker, current, cancels, faults, restarts, handled, settled, stranded>>

Poll ==
  /\ bot.up /\ call[BotCall] = "none"
  /\ confirmed' = IF bot.last > confirmed THEN bot.last ELSE confirmed
  /\ IF confirmed' = sent THEN UNCHANGED <<bot, call>>
     ELSE /\ bot' = [bot EXCEPT !.next = confirmed' + 1, !.last = sent]
          /\ call' = [call EXCEPT ![BotCall] = "accept"]
  /\ UNCHANGED <<sent, queue, worker, current, cancels, faults, restarts, handled, settled, stranded>>

Webhook(h) ==
  /\ call[h] = "none" /\ call' = [call EXCEPT ![h] = "accept"]
  /\ UNCHANGED <<sent, confirmed, bot, queue, worker, current, cancels, faults, restarts, handled, settled, stranded>>

Message(c) == IF c = BotCall THEN bot.next ELSE c
Request(c) == [msg |-> Message(c), client |-> IF c = BotCall THEN bot.client ELSE 0]

(* Mutant: the bot reads one update more than its batch has.                   *)
ReturnPast(c) ==
  IF c = BotCall
  THEN /\ call' = [call EXCEPT ![c] = IF bot.next <= bot.last THEN "accept" ELSE "none"]
       /\ bot' = [bot EXCEPT !.next = IF bot.next <= bot.last THEN bot.next + 1 ELSE bot.next]
  ELSE call' = [call EXCEPT ![c] = "closing"] /\ UNCHANGED bot

(* The bot takes the next update of its batch; a webhook call ends, and closes *)
(* its clients.                                                                *)
Return(c) ==
  IF c = BotCall
  THEN /\ call' = [call EXCEPT ![c] = IF bot.next < bot.last THEN "accept" ELSE "none"]
       /\ bot' = [bot EXCEPT !.next = IF bot.next < bot.last THEN bot.next + 1 ELSE bot.next]
  ELSE call' = [call EXCEPT ![c] = "closing"] /\ UNCHANGED bot

Notify(c) == call' = [call EXCEPT ![c] = "notice"] /\ UNCHANGED bot

(* What /link, /help and /new are answered with, and what a sender gets who is *)
(* not linked or over the rate limit.                                          *)
AnswerAtOnce(c) ==
  /\ Notify(c) /\ settled' = settled \cup {Message(c)}
  /\ UNCHANGED <<queue, worker, current, cancels, stranded>>

Live(w) == w # 0 /\ worker[w].at # "gone"

(* Mutant: a worker for every message.                                         *)
StartAnother(c) ==
  /\ \E w \in Workers :
       /\ worker[w].at = "gone" /\ \A v \in 1..(w - 1) : worker[v].at # "gone"
       /\ worker' = [worker EXCEPT ![w] = [Gone EXCEPT !.at = "new"]] /\ current' = w
  /\ queue' = Append(queue, Request(c)) /\ stranded' = FALSE
  /\ Return(c) /\ UNCHANGED <<settled, cancels>>

(* A worker for the queue, if there is none that lives.                        *)
StartWorker(c) ==
  /\ ~ Live(current)
  /\ \E w \in Workers :
       /\ worker[w].at = "gone" /\ \A v \in 1..(w - 1) : worker[v].at # "gone"
       /\ worker' = [worker EXCEPT ![w] = [Gone EXCEPT !.at = "new"]] /\ current' = w
  /\ queue' = Append(queue, Request(c)) /\ stranded' = FALSE
  /\ Return(c) /\ UNCHANGED <<settled, cancels>>

(* Mutant: the request waits in front of the others.                           *)
WaitInFront(c) ==
  /\ Live(current)
  /\ queue' = <<Request(c)>> \o queue
  /\ Notify(c) /\ UNCHANGED <<worker, current, cancels, settled, stranded>>

(* Got it - I'll respond once I finish the current request: the message has    *)
(* none of the words that interrupt, or the worker has not begun yet.          *)
Wait(c) ==
  /\ Live(current)
  /\ queue' = Append(queue, Request(c))
  /\ Notify(c) /\ UNCHANGED <<worker, current, cancels, settled, stranded>>

(* What a request has read from its stream and not sent yet.                   *)
InHand(r) == r.pieces + IF r.buffer THEN 1 ELSE 0

(* Mutant: the queue is cleared after the latest request has joined it.        *)
InterruptAndClear(c) ==
  /\ Live(current) /\ cancels # 0
  /\ worker' = [worker EXCEPT ![cancels].cancelled = TRUE, ![cancels].owed = InHand(worker[cancels])]
  /\ queue' = <<>> /\ settled' = settled \cup Queued
  /\ Notify(c) /\ UNCHANGED <<current, cancels, stranded>>

(* Got it - switching to your latest request: it has one of them.              *)
Interrupt(c) ==
  /\ Live(current) /\ cancels # 0
  /\ worker' = [worker EXCEPT ![cancels].cancelled = TRUE, ![cancels].owed = InHand(worker[cancels])]
  /\ queue' = <<Request(c)>> /\ settled' = settled \cup Queued
  /\ Notify(c) /\ UNCHANGED <<current, cancels, stranded>>

(* process, once the sender's binding is known.                                *)
Accept(c) ==
  /\ call[c] = "accept"
  /\ AnswerAtOnce(c) \/ StartWorker(c) \/ Wait(c) \/ Interrupt(c)
  /\ handled' = handled \cup {Message(c)}
  /\ UNCHANGED <<sent, confirmed, faults, restarts>>

(* The notice is sent, or its failure ends the bot or the webhook call.        *)
Notice(c) ==
  /\ call[c] = "notice"
  /\ \/ Return(c) /\ Healthy
     \/ /\ Fault
        /\ call' = [call EXCEPT ![c] = IF c = BotCall THEN "none" ELSE "closed"]
        /\ bot' = IF c = BotCall THEN [bot EXCEPT !.up = FALSE] ELSE bot
  /\ UNCHANGED <<sent, confirmed, queue, worker, current, cancels, restarts, handled, settled, stranded>>

Close(c) ==
  /\ call[c] = "closing" /\ call' = [call EXCEPT ![c] = "closed"]
  /\ UNCHANGED <<sent, confirmed, bot, queue, worker, current, cancels, faults, restarts, handled, settled, stranded>>

(* PollingManager finds the bot's task done and starts another.                *)
Supervise ==
  /\ ~ bot.up
  /\ bot' = [up |-> TRUE, client |-> bot.client + 1, next |-> 0, last |-> 0]
  /\ UNCHANGED <<sent, confirmed, call, queue, worker, current, cancels, faults, restarts, handled, settled, stranded>>

------------------------------------------------------------------------------
(* _sender_worker and _run_request.                                            *)
At(w, p) == worker[w].at = p
Go(w, p) == worker' = [worker EXCEPT ![w].at = p]
Still == UNCHANGED <<sent, confirmed, bot, call, restarts, handled>>

(* The worker ends, and takes itself off the books.                            *)
Leave(w) == worker' = [worker EXCEPT ![w] = Gone] /\ current' = 0 /\ cancels' = 0

(* Mutant: a worker that ends leaves the next request to the next message.     *)
TakeOne(w) ==
  /\ worker[w].at \in {"new", "end"}
  /\ settled' = IF At(w, "end") THEN settled \cup {worker[w].req.msg} ELSE settled
  /\ IF At(w, "end") \/ queue = <<>> THEN Leave(w) /\ UNCHANGED queue
     ELSE /\ worker' = [worker EXCEPT ![w] = [Gone EXCEPT !.at = "start", !.req = Head(queue)]]
          /\ queue' = Tail(queue) /\ cancels' = w /\ UNCHANGED current
  /\ UNCHANGED <<faults, stranded>> /\ Still

Take(w) ==
  /\ worker[w].at \in {"new", "end"}
  /\ settled' = IF At(w, "end") THEN settled \cup {worker[w].req.msg} ELSE settled
  /\ IF queue = <<>> THEN Leave(w) /\ UNCHANGED queue
     ELSE /\ worker' = [worker EXCEPT ![w] = [Gone EXCEPT !.at = "start", !.req = Head(queue)]]
          /\ queue' = Tail(queue) /\ cancels' = w /\ UNCHANGED current
  /\ UNCHANGED <<faults, stranded>> /\ Still

(* Typing indicator and placeholder fail silently; the token is exchanged, or  *)
(* refreshed once if its key was rotated.                                      *)
Begin(w) ==
  /\ At(w, "start")
  /\ \/ /\ Open(worker[w].req) /\ Healthy
        /\ \E n \in 0..MaxEvents : worker' = [worker EXCEPT ![w].at = "stream", ![w].left = n]
     \/ /\ Open(worker[w].req) /\ Healthy
        /\ ~ worker[w].refreshed /\ worker' = [worker EXCEPT ![w].refreshed = TRUE]
     \/ Fails(worker[w].req) /\ Go(w, "tell")
  /\ UNCHANGED <<queue, current, cancels, settled, stranded>> /\ Still

(* Mutant: a cancelled request goes on to the end of its stream.               *)
EventAnyway(w) ==
  /\ At(w, "stream") /\ Open(worker[w].req) /\ Healthy
  /\ worker[w].left > 0
  /\ \/ worker' = [worker EXCEPT ![w].left = worker[w].left - 1, ![w].buffer = TRUE]
     \/ \E n \in 1..(IF worker[w].buffer THEN 2 ELSE 1) :
          worker' = [worker EXCEPT ![w].left = worker[w].left - 1, ![w].at = "send", ![w].pieces = n,
                                   ![w].buffer = FALSE]
  /\ UNCHANGED <<queue, current, cancels, settled, stranded>> /\ Still

(* One event: a part for the buffer, or pieces to send (what the buffer holds  *)
(* goes first), or, on channels without a status message to edit, a thought    *)
(* or tool that is told at once, past the buffer.  A cancelled request stops   *)
(* at the next event and sends what is left in the buffer; so does one whose   *)
(* stream has ended.                                                           *)
Event(w) ==
  /\ At(w, "stream") /\ Open(worker[w].req) /\ Healthy
  /\ worker[w].left > 0 /\ ~ worker[w].cancelled
  /\ \/ worker' = [worker EXCEPT ![w].left = worker[w].left - 1, ![w].buffer = TRUE]
     \/ \E n \in 1..(IF worker[w].buffer THEN 2 ELSE 1) :
          worker' = [worker EXCEPT ![w].left = worker[w].left - 1, ![w].at = "send", ![w].pieces = n,
                                   ![w].buffer = FALSE]
     \/ /\ worker[w].req.msg \in Webhooks
        /\ worker' = [worker EXCEPT ![w].left = worker[w].left - 1, ![w].at = "send", ![w].pieces = 1]
  /\ UNCHANGED <<queue, current, cancels, settled, stranded>> /\ Still

LastEvent(w) ==
  /\ At(w, "stream") /\ Open(worker[w].req) /\ Healthy
  /\ worker[w].left = 0 \/ worker[w].cancelled
  /\ worker' = [worker EXCEPT ![w].at = IF worker[w].buffer THEN "send" ELSE "end",
                              ![w].pieces = IF worker[w].buffer THEN 1 ELSE 0,
                              ![w].buffer = FALSE, ![w].left = 0]
  /\ UNCHANGED <<queue, current, cancels, settled, stranded>> /\ Still

(* The agent service ends the stream with an error, or it breaks off.          *)
StreamFails(w) ==
  /\ At(w, "stream") /\ Fails(worker[w].req) /\ Go(w, "tell")
  /\ UNCHANGED <<queue, current, cancels, settled, stranded>> /\ Still

SendPiece(w) ==
  /\ At(w, "send")
  /\ \/ /\ Open(worker[w].req) /\ Healthy
        /\ worker' = [worker EXCEPT ![w].pieces = worker[w].pieces - 1,
                                    ![w].owed = IF worker[w].cancelled THEN worker[w].owed - 1 ELSE worker[w].owed,
                                    ![w].at = IF worker[w].pieces > 1 THEN "send" ELSE "stream"]
     \/ Fails(worker[w].req) /\ Go(w, "tell")
  /\ UNCHANGED <<queue, current, cancels, settled, stranded>> /\ Still

(* The user is told of the failure; when that fails too, the exception ends    *)
(* the worker and the rest of the queue stays where it is.                     *)
Tell(w) ==
  /\ At(w, "tell")
  /\ \/ /\ Open(worker[w].req) /\ Healthy /\ Go(w, "end")
        /\ UNCHANGED <<current, cancels, settled, stranded>>
     \/ /\ Fails(worker[w].req) /\ Leave(w)
        /\ settled' = settled \cup {worker[w].req.msg} /\ stranded' = (queue # <<>>)
  /\ UNCHANGED queue /\ Still

(* The process is restarted; what it had in memory is lost.                    *)
Restart ==
  /\ restarts < MaxRestarts /\ restarts' = restarts + 1
  /\ bot' = [up |-> TRUE, client |-> bot.client + 1, next |-> 0, last |-> 0]
  /\ call' = [c \in Callers |-> IF c = BotCall THEN "none" ELSE IF call[c] = "none" THEN "none" ELSE "closed"]
  /\ settled' = settled \cup Queued \cup {worker[w].req.msg : w \in {v \in Workers : worker[v].at \notin {"gone", "new"}}}
  /\ queue' = <<>> /\ worker' = [w \in Workers |-> Gone] /\ current' = 0 /\ cancels' = 0 /\ stranded' = FALSE
  /\ UNCHANGED <<sent, confirmed, faults, handled>>

Serve(c) == Accept(c) \/ Notice(c) \/ Close(c)
Work(w) ==
  \/ Take(w) \/ Begin(w) \/ Event(w) \/ LastEvent(w) \/ StreamFails(w) \/ SendPiece(w) \/ Tell(w)

Next ==
  \/ Send \/ Poll \/ Supervise \/ Restart
  \/ \E c \in Callers : Serve(c)
  \/ \E h \in Webhooks : Webhook(h)
  \/ \E w \in Workers : Work(w)

(* Coroutines go on, the bot polls, and the manager looks after it; the agent  *)
(* service ends every stream.                                                  *)
Fairness ==
  /\ WF_vars(Poll) /\ WF_vars(Supervise)
  /\ \A c \in Callers : WF_vars(Serve(c))
  /\ WF_vars(\E w \in Workers : Work(w))

Spec == Init /\ [][Next]_vars /\ Fairness
==============================================================================
