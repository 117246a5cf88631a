----------------------------- MODULE BridgeProofs -----------------------------
(* Proofs about Bridge: types, one worker for a user's requests, a queue that  *)
(* is not left alone, the effect of an interrupt, and the order of messages.   *)
EXTENDS BridgeProperties, TLAPS

USE BridgeAssumption

Places == {"gone", "new", "start", "stream", "send", "tell", "end"}
WorkerType == [at: Places, req: Requests \cup {NoRequest}, cancelled: BOOLEAN, buffer: BOOLEAN,
               pieces: 0..2, left: 0..MaxEvents, refreshed: BOOLEAN, owed: Int]

(* What is true of a worker on its own: an interrupted request owes what it    *)
(* has in hand, and has nothing in hand but between an event and its sending.  *)
Good(x) ==
  /\ x \in WorkerType
  /\ x.at \notin {"gone", "new"} => x.req \in Requests
  /\ x.at \in {"new", "start", "stream"} => x.pieces = 0
  /\ x.at = "send" => x.pieces >= 1
  /\ x.owed >= 0
  /\ x.cancelled /\ x.at \in {"start", "stream", "send"} => x.owed >= InHand(x)

Sole == \A w \in Workers : worker[w].at # "gone" => current = w

Crew ==
  /\ worker \in [Workers -> WorkerType] /\ \A w \in Workers : Good(worker[w])
  /\ queue \in Seq(Requests) /\ current \in 0..MaxWorkers /\ cancels \in 0..MaxWorkers /\ stranded \in BOOLEAN
  /\ Sole /\ QueueIsWorked

BotType == [up: BOOLEAN, client: Nat, next: Nat, last: 0..MaxTelegram]
CallType == [Callers -> {"none", "accept", "notice", "closing", "closed"}]
Mail ==
  /\ sent \in 0..MaxTelegram /\ confirmed \in 0..MaxTelegram /\ bot \in BotType /\ call \in CallType
  /\ call[BotCall] \in {"accept", "notice"} => bot.up /\ bot.next \in Telegram
  /\ confirmed <= sent /\ bot.last <= sent

Books ==
  /\ faults \in 0..MaxFaults /\ restarts \in 0..MaxRestarts
  /\ handled \subseteq Messages /\ settled \subseteq Messages

Inv == Mail /\ Crew /\ Books

LEMMA InvGivesType == Inv => BridgeTypeOK
<1> SUFFICES ASSUME Inv PROVE BridgeTypeOK
  OBVIOUS
<1>1. worker \in [Workers -> [at: {"gone", "new", "start", "stream", "send", "tell", "end"}, req: Requests \cup {NoRequest},
                             cancelled: BOOLEAN, buffer: BOOLEAN, pieces: 0..2, left: 0..MaxEvents,
                             refreshed: BOOLEAN, owed: Int]]
  BY DEF Inv, Crew, WorkerType, Places
<1>2. \A w \in Workers : worker[w].at \notin {"gone", "new"} => worker[w].req \in Requests
  BY DEF Inv, Crew, Good
<1> QED BY <1>1, <1>2 DEF Inv, Mail, Crew, Books, BridgeTypeOK, BotType, CallType

LEMMA InvGivesRest == Inv => OneWorker /\ QueueIsWorked /\ InterruptTakesEffect
  BY DEF Inv, Crew, Sole, OneWorker, InterruptTakesEffect, Good

------------------------------------------------------------------------------
(* Messages.                                                                   *)
LEMMA Numbers ==
  /\ BotCall \in Callers /\ BotCall \notin Webhooks /\ Webhooks \subseteq Callers
  /\ Telegram \subseteq Messages /\ Webhooks \subseteq Messages /\ 0 \notin Messages
  /\ \A c \in Callers : c # BotCall => c \in Webhooks
  BY DEF BotCall, Callers, Webhooks, Telegram, Messages

LEMMA MessageType ==
  ASSUME Mail, NEW c \in Callers, call[c] \in {"accept", "notice"}
  PROVE  Message(c) \in Messages /\ Request(c) \in Requests
<1>1. Message(c) \in Messages
  BY Numbers DEF Message, Mail
<1>2. (IF c = BotCall THEN bot.client ELSE 0) \in Nat
  BY DEF Mail, BotType
<1> QED BY <1>1, <1>2 DEF Request, Requests

(* One caller goes on, the bot not to a message.                               *)
LEMMA CallMail ==
  ASSUME Mail, NEW c \in Callers, NEW p \in {"none", "accept", "notice", "closing", "closed"},
         call' = [call EXCEPT ![c] = p],
         c = BotCall => p = "none" \/ (p = "notice" /\ call[c] = "accept"),
         UNCHANGED <<sent, confirmed, bot>>
  PROVE  Mail'
<1>1. call' \in CallType
  BY DEF Mail, CallType
<1>2. call'[BotCall] \in {"accept", "notice"} => call[BotCall] \in {"accept", "notice"}
  BY Numbers DEF Mail, CallType
<1> QED BY <1>1, <1>2 DEF Mail

LEMMA NotifyMail ==
  ASSUME Mail, NEW c \in Callers, call[c] = "accept", Notify(c), UNCHANGED <<sent, confirmed>>
  PROVE  Mail'
  BY CallMail DEF Notify

LEMMA ReturnMail ==
  ASSUME Mail, NEW c \in Callers, call[c] \in {"accept", "notice"}, Return(c), UNCHANGED <<sent, confirmed>>
  PROVE  Mail'
<1>1. CASE c = BotCall /\ bot.next < bot.last
  <2>1. call' = [call EXCEPT ![c] = "accept"] /\ bot' = [bot EXCEPT !.next = bot.next + 1]
    BY <1>1 DEF Return
  <2>2. bot.next \in Telegram /\ bot.up
    BY <1>1 DEF Mail
  <2>3. bot' \in BotType /\ bot'.next = bot.next + 1 /\ bot'.up /\ bot'.last = bot.last
    BY <2>1, <2>2 DEF Mail, BotType
  <2>4. bot.next + 1 \in Telegram
    BY <1>1, <2>2 DEF Mail, BotType, Telegram
  <2> QED BY <2>1, <2>3, <2>4 DEF Mail, CallType
<1>2. CASE c = BotCall /\ ~ (bot.next < bot.last)
  <2>1. bot' = [bot EXCEPT !.next = bot.next] /\ call' = [call EXCEPT ![c] = "none"]
    BY <1>2 DEF Return
  <2>2. bot' = bot
    BY <2>1 DEF Mail, BotType
  <2> QED BY <1>2, <2>1, <2>2, CallMail
<1>3. CASE c # BotCall
  BY <1>3, CallMail DEF Return
<1> QED BY <1>1, <1>2, <1>3

------------------------------------------------------------------------------
(* The worker.                                                                 *)
LEMMA GoneType == Gone \in WorkerType /\ Good(Gone) /\ Gone.at = "gone"
<1>1. Gone \in WorkerType
  BY DEF Gone, WorkerType, Places
<1> QED BY <1>1 DEF Gone, Good

(* The worker that is there goes on to something else.                         *)
LEMMA WorkStep ==
  ASSUME Crew, NEW w \in Workers, worker[w].at # "gone", NEW y, Good(y), y.at # "gone",
         worker' = [worker EXCEPT ![w] = y], UNCHANGED <<queue, current, cancels, stranded>>
  PROVE  Crew'
<1>1. worker' \in [Workers -> WorkerType] /\ \A v \in Workers : worker'[v] = IF v = w THEN y ELSE worker[v]
  BY DEF Crew, Good
<1>2. \A v \in Workers : Good(worker'[v])
  BY <1>1 DEF Crew
<1>3. current = w /\ Sole'
  BY <1>1 DEF Crew, Sole
<1>4. QueueIsWorked'
  BY <1>1, <1>3 DEF QueueIsWorked, Live, Workers
<1> QED BY <1>1, <1>2, <1>3, <1>4 DEF Crew

LEMMA LeaveStep ==
  ASSUME Crew, NEW w \in Workers, worker[w].at # "gone", Leave(w), UNCHANGED queue,
         stranded' \in BOOLEAN, queue # <<>> => stranded'
  PROVE  Crew'
<1>1. /\ worker' \in [Workers -> WorkerType]
      /\ \A v \in Workers : worker'[v] = IF v = w THEN Gone ELSE worker[v]
  BY GoneType DEF Crew, Leave
<1>2. \A v \in Workers : Good(worker'[v])
  BY <1>1, GoneType DEF Crew
<1>3. Sole'
  BY <1>1, GoneType DEF Crew, Sole
<1>4. QueueIsWorked'
  BY DEF QueueIsWorked
<1>5. current' \in 0..MaxWorkers /\ cancels' \in 0..MaxWorkers
  BY DEF Leave
<1> QED BY <1>1, <1>2, <1>3, <1>4, <1>5 DEF Crew

(* A new worker where there was none, or a request more for the one there is.  *)
LEMMA StartCrew ==
  ASSUME Crew, NEW c \in Callers, Request(c) \in Requests, StartWorker(c)
  PROVE  Crew'
<1> DEFINE y == [Gone EXCEPT !.at = "new"]
<1>1. PICK w \in Workers : worker' = [worker EXCEPT ![w] = y] /\ current' = w
  BY DEF StartWorker
<1>2. Good(y) /\ y.at = "new"
  BY GoneType DEF Good, WorkerType, Places, Gone
<1>3. \A v \in Workers : worker[v].at = "gone"
  BY DEF StartWorker, Live, Crew, Sole, Workers
<1> HIDE DEF y
<1>4. worker' \in [Workers -> WorkerType] /\ \A v \in Workers : worker'[v] = IF v = w THEN y ELSE worker[v]
  BY <1>1, <1>2 DEF Crew, Good
<1>5. (\A v \in Workers : Good(worker'[v])) /\ Sole'
  BY <1>1, <1>2, <1>3, <1>4 DEF Crew, Sole
<1>6. QueueIsWorked'
  BY <1>1, <1>2, <1>4 DEF QueueIsWorked, Live, Workers
<1>7. queue' \in Seq(Requests) /\ current' \in 0..MaxWorkers /\ cancels' \in 0..MaxWorkers /\ stranded' \in BOOLEAN
  <2>1. queue' = Append(queue, Request(c)) /\ stranded' = FALSE /\ cancels' = cancels
    BY DEF StartWorker
  <2>2. current' \in 0..MaxWorkers
    BY <1>1 DEF Workers
  <2>3. queue' \in Seq(Requests)
    BY <2>1 DEF Crew
  <2>4. cancels' \in 0..MaxWorkers
    BY <2>1 DEF Crew
  <2> QED BY <2>1, <2>2, <2>3, <2>4
<1> QED BY <1>4, <1>5, <1>6, <1>7 DEF Crew

LEMMA WaitCrew ==
  ASSUME Crew, NEW c \in Callers, Request(c) \in Requests, Wait(c)
  PROVE  Crew'
<1>1. queue' \in Seq(Requests) /\ UNCHANGED <<worker, current, cancels, stranded>> /\ Live(current)
  BY DEF Wait, Crew
<1>2. Sole' /\ QueueIsWorked'
  BY <1>1 DEF Crew, Sole, QueueIsWorked, Live
<1> QED BY <1>1, <1>2 DEF Crew

LEMMA InterruptCrew ==
  ASSUME Crew, NEW c \in Callers, Request(c) \in Requests, Interrupt(c)
  PROVE  Crew'
<1> DEFINE y == [worker[cancels] EXCEPT !.cancelled = TRUE, !.owed = InHand(worker[cancels])]
<1>c. cancels \in Workers
  BY DEF Interrupt, Crew, Workers
<1>w. worker[cancels] \in WorkerType /\ Good(worker[cancels])
  BY <1>c DEF Crew
<1>1. InHand(worker[cancels]) \in Int /\ InHand(worker[cancels]) >= 0
  BY <1>w DEF InHand, WorkerType
<1>2. y \in WorkerType
  BY <1>1, <1>w DEF WorkerType
<1>3. /\ y.at = worker[cancels].at /\ y.req = worker[cancels].req /\ y.pieces = worker[cancels].pieces
      /\ y.buffer = worker[cancels].buffer /\ y.owed = InHand(worker[cancels])
  BY <1>w DEF WorkerType
<1>4. InHand(y) = InHand(worker[cancels])
  BY <1>3 DEF InHand
<1> HIDE DEF y
<1>5. Good(y)
  BY <1>1, <1>2, <1>3, <1>4, <1>w DEF Good
<1>6. worker' = [worker EXCEPT ![cancels] = y]
  BY <1>c DEF Interrupt, y, Crew
<1>7. worker' \in [Workers -> WorkerType] /\ \A v \in Workers : worker'[v] = IF v = cancels THEN y ELSE worker[v]
  BY <1>2, <1>6 DEF Crew
<1>8. \A v \in Workers : Good(worker'[v]) /\ worker'[v].at = worker[v].at
  BY <1>3, <1>5, <1>7 DEF Crew
<1>9. queue' \in Seq(Requests) /\ UNCHANGED <<current, cancels, stranded>> /\ Live(current)
  BY DEF Interrupt
<1>10. Sole'
  BY <1>8, <1>9 DEF Crew, Sole
<1>11. Live(current)'
  <2>1. current \in Workers /\ worker[current].at # "gone"
    BY <1>9 DEF Live, Crew, Workers
  <2> QED BY <1>8, <1>9, <2>1 DEF Live, Workers
<1>12. QueueIsWorked'
  BY <1>11 DEF QueueIsWorked
<1> QED BY <1>7, <1>8, <1>9, <1>10, <1>12 DEF Crew

(* The next request, or the end of the worker.                                 *)
LEMMA TakeCrew ==
  ASSUME Crew, NEW w \in Workers, Take(w)
  PROVE  Crew'
<1>g. worker[w].at # "gone"
  BY DEF Take
<1>1. CASE queue = <<>>
  BY <1>1, <1>g, LeaveStep DEF Take, Crew
<1>2. CASE queue # <<>>
  <2> DEFINE y == [Gone EXCEPT !.at = "start", !.req = Head(queue)]
  <2>1. Head(queue) \in Requests /\ Tail(queue) \in Seq(Requests)
    BY <1>2 DEF Crew
  <2>2. y \in WorkerType /\ y.at = "start" /\ y.req \in Requests /\ y.pieces = 0 /\ y.owed = 0 /\ y.cancelled = FALSE
    BY <2>1, GoneType DEF WorkerType, Places, Gone
  <2>3. worker' = [worker EXCEPT ![w] = y] /\ queue' = Tail(queue) /\ cancels' = w /\ UNCHANGED <<current, stranded>>
    BY <1>2 DEF Take
  <2> HIDE DEF y
  <2>4. Good(y)
    BY <2>2 DEF Good
  <2>5. worker' \in [Workers -> WorkerType] /\ \A v \in Workers : worker'[v] = IF v = w THEN y ELSE worker[v]
    BY <2>2, <2>3 DEF Crew
  <2>6. \A v \in Workers : Good(worker'[v])
    BY <2>4, <2>5 DEF Crew
  <2>7. current = w /\ Sole'
    BY <1>g, <2>3, <2>5 DEF Crew, Sole
  <2>8. QueueIsWorked'
    BY <2>2, <2>3, <2>5, <2>7 DEF QueueIsWorked, Live, Workers
  <2>9. queue' \in Seq(Requests) /\ current' \in 0..MaxWorkers /\ cancels' \in 0..MaxWorkers /\ stranded' \in BOOLEAN
    BY <2>1, <2>3 DEF Crew, Workers
  <2> QED BY <2>5, <2>6, <2>7, <2>8, <2>9 DEF Crew
<1> QED BY <1>1, <1>2

(* The rest of a request: each step is one of the worker's, by WorkStep.       *)
LEMMA HandType ==
  ASSUME NEW x \in WorkerType
  PROVE  InHand(x) = IF x.buffer THEN x.pieces + 1 ELSE x.pieces
  BY DEF InHand, WorkerType

LEMMA GoCrew ==
  ASSUME Crew, NEW w \in Workers, worker[w].at \notin {"gone", "new"}, NEW p \in {"tell", "end"}, Go(w, p),
         UNCHANGED <<queue, current, cancels, stranded>>
  PROVE  Crew'
<1> DEFINE y == [worker[w] EXCEPT !.at = p]
<1>w. worker[w] \in WorkerType /\ Good(worker[w])
  BY DEF Crew
<1>1. y \in WorkerType /\ y.at = p /\ y.req = worker[w].req /\ y.owed = worker[w].owed
  BY <1>w DEF WorkerType, Places
<1>2. worker' = [worker EXCEPT ![w] = y]
  BY DEF Go, Crew
<1> HIDE DEF y
<1>3. Good(y)
  BY <1>1, <1>w DEF Good
<1> QED BY <1>1, <1>2, <1>3, WorkStep

LEMMA BeginCrew ==
  ASSUME Crew, NEW w \in Workers, Begin(w)
  PROVE  Crew'
<1>w. worker[w] \in WorkerType /\ Good(worker[w]) /\ worker[w].at = "start"
  BY DEF Begin, At, Crew
<1>u. UNCHANGED <<queue, current, cancels, stranded>>
  BY DEF Begin
<1>1. ASSUME NEW n \in 0..MaxEvents, worker' = [worker EXCEPT ![w].at = "stream", ![w].left = n]
      PROVE  Crew'
  <2> DEFINE y == [worker[w] EXCEPT !.at = "stream", !.left = n]
  <2>1. /\ y \in WorkerType /\ y.at = "stream" /\ y.req = worker[w].req /\ y.owed = worker[w].owed
        /\ y.pieces = worker[w].pieces /\ y.cancelled = worker[w].cancelled /\ y.buffer = worker[w].buffer
    BY <1>w DEF WorkerType, Places
  <2>2. worker' = [worker EXCEPT ![w] = y]
    BY <1>1 DEF Crew
  <2> HIDE DEF y
  <2>3. Good(y)
    BY <2>1, <1>w DEF Good, InHand
  <2> QED BY <1>u, <1>w, <2>1, <2>2, <2>3, WorkStep
<1>2. ASSUME worker' = [worker EXCEPT ![w].refreshed = TRUE] PROVE Crew'
  <2> DEFINE y == [worker[w] EXCEPT !.refreshed = TRUE]
  <2>1. /\ y \in WorkerType /\ y.at = "start" /\ y.req = worker[w].req /\ y.owed = worker[w].owed
        /\ y.pieces = worker[w].pieces /\ y.cancelled = worker[w].cancelled /\ y.buffer = worker[w].buffer
    BY <1>w DEF WorkerType, Places
  <2>2. worker' = [worker EXCEPT ![w] = y]
    BY <1>2 DEF Crew
  <2> HIDE DEF y
  <2>3. Good(y)
    BY <2>1, <1>w DEF Good, InHand
  <2> QED BY <1>u, <1>w, <2>1, <2>2, <2>3, WorkStep
<1>3. ASSUME Go(w, "tell") PROVE Crew'
  BY <1>3, <1>u, <1>w, GoCrew
<1> QED BY <1>1, <1>2, <1>3 DEF Begin

Put(x, l, p, n) == [x EXCEPT !.left = l, !.at = p, !.pieces = n, !.buffer = FALSE]

LEMMA PiecesType ==
  ASSUME NEW x \in WorkerType, NEW l \in 0..MaxEvents, NEW p \in Places, NEW n \in 0..2
  PROVE  /\ Put(x, l, p, n) \in WorkerType
         /\ Put(x, l, p, n).at = p /\ Put(x, l, p, n).req = x.req /\ Put(x, l, p, n).owed = x.owed
         /\ Put(x, l, p, n).pieces = n /\ Put(x, l, p, n).cancelled = x.cancelled
<1>1. Put(x, l, p, n) \in WorkerType
  BY DEF WorkerType, Put
<1>2. Put(x, l, p, n).at = p /\ Put(x, l, p, n).req = x.req /\ Put(x, l, p, n).owed = x.owed
  BY DEF WorkerType, Put
<1>3. Put(x, l, p, n).pieces = n /\ Put(x, l, p, n).cancelled = x.cancelled
  BY DEF WorkerType, Put
<1> QED BY <1>1, <1>2, <1>3

LEMMA PutFlags ==
  ASSUME NEW x \in WorkerType, NEW l, NEW p, NEW n
  PROVE  ~ Put(x, l, p, n).buffer /\ Put(x, l, p, n).cancelled = x.cancelled
  BY DEF WorkerType, Put

LEMMA EventCrew ==
  ASSUME Crew, NEW w \in Workers, Event(w)
  PROVE  Crew'
<1>w. /\ worker[w] \in WorkerType /\ Good(worker[w]) /\ worker[w].at = "stream"
      /\ worker[w].left > 0 /\ ~ worker[w].cancelled
  <2>1. worker[w] \in WorkerType /\ Good(worker[w])
    BY DEF Crew
  <2> QED BY <2>1 DEF Event, At, WorkerType
<1>u. UNCHANGED <<queue, current, cancels, stranded>>
  BY DEF Event
<1>l. worker[w].left - 1 \in 0..MaxEvents
  BY <1>w DEF WorkerType
<1>1. ASSUME worker' = [worker EXCEPT ![w].left = worker[w].left - 1, ![w].buffer = TRUE]
      PROVE  Crew'
  <2> DEFINE y == [worker[w] EXCEPT !.left = worker[w].left - 1, !.buffer = TRUE]
  <2>1. /\ y \in WorkerType /\ y.at = "stream" /\ y.req = worker[w].req /\ y.owed = worker[w].owed
        /\ y.pieces = worker[w].pieces /\ ~ y.cancelled
    BY <1>w, <1>l DEF WorkerType
  <2>2. worker' = [worker EXCEPT ![w] = y]
    BY <1>1 DEF Crew
  <2> HIDE DEF y
  <2>3. Good(y)
    BY <2>1, <1>w DEF Good
  <2> QED BY <1>u, <1>w, <2>1, <2>2, <2>3, WorkStep
<1>2. ASSUME NEW n \in 1..2,
             worker' = [worker EXCEPT ![w].left = worker[w].left - 1, ![w].at = "send", ![w].pieces = n,
                                      ![w].buffer = FALSE]
      PROVE  Crew'
  <2> DEFINE l == worker[w].left - 1
             p == "send"
             y == Put(worker[w], l, p, n)
  <2>0. n \in 0..2 /\ p \in Places
    BY DEF Places
  <2>1. /\ y \in WorkerType /\ y.at = "send" /\ y.req = worker[w].req /\ y.owed = worker[w].owed
        /\ y.pieces = n /\ ~ y.cancelled
    <3>0. l \in 0..MaxEvents /\ worker[w] \in WorkerType
      BY <1>w, <1>l
    <3> HIDE DEF l, p
    <3>1. /\ y \in WorkerType /\ y.at = p /\ y.req = worker[w].req /\ y.owed = worker[w].owed
          /\ y.pieces = n
      BY <3>0, <2>0, PiecesType
    <3>2. y.cancelled = worker[w].cancelled
      BY <3>0, PutFlags
    <3> QED BY <1>w, <3>1, <3>2 DEF p
  <2>2. worker' = [worker EXCEPT ![w] = y]
    BY <1>2 DEF Crew, Put
  <2> HIDE DEF y
  <2>3. Good(y)
    BY <2>1, <1>w DEF Good
  <2> QED BY <1>u, <1>w, <2>1, <2>2, <2>3, WorkStep
<1>3. ASSUME worker' = [worker EXCEPT ![w].left = worker[w].left - 1, ![w].at = "send", ![w].pieces = 1]
      PROVE  Crew'
  <2> DEFINE y == [worker[w] EXCEPT !.left = worker[w].left - 1, !.at = "send", !.pieces = 1]
  <2>0. "send" \in Places /\ 1 \in 0..2
    BY DEF Places
  <2>1. /\ y \in WorkerType /\ y.at = "send" /\ y.req = worker[w].req /\ y.owed = worker[w].owed
        /\ y.pieces = 1 /\ ~ y.cancelled
    BY <1>w, <1>l, <2>0 DEF WorkerType
  <2>2. worker' = [worker EXCEPT ![w] = y]
    BY <1>3 DEF Crew
  <2> HIDE DEF y
  <2>3. Good(y)
    BY <2>1, <1>w DEF Good
  <2> QED BY <1>u, <1>w, <2>1, <2>2, <2>3, WorkStep
<1>4. \A n \in 1..(IF worker[w].buffer THEN 2 ELSE 1) : n \in 1..2
  OBVIOUS
<1> QED BY <1>1, <1>2, <1>3, <1>4 DEF Event

(* The stream ends, or stops for an interrupt: what is left goes out.          *)
LEMMA LastCrew ==
  ASSUME Crew, NEW w \in Workers, LastEvent(w)
  PROVE  Crew'
<1>w. worker[w] \in WorkerType /\ Good(worker[w]) /\ worker[w].at = "stream"
  BY DEF LastEvent, At, Crew
<1>u. UNCHANGED <<queue, current, cancels, stranded>>
  BY DEF LastEvent
<1> DEFINE p == IF worker[w].buffer THEN "send" ELSE "end"
           n == IF worker[w].buffer THEN 1 ELSE 0
           y == Put(worker[w], 0, p, n)
<1>1. p \in {"send", "end"} /\ n \in 0..1 /\ (p = "send" => n = 1) /\ (p = "send" => worker[w].buffer)
  OBVIOUS
<1>2. worker' = [worker EXCEPT ![w] = y]
  BY DEF LastEvent, Crew, Put
<1> HIDE DEF p, n
<1>3. /\ y \in WorkerType /\ y.at = p /\ y.req = worker[w].req /\ y.owed = worker[w].owed
      /\ y.pieces = n /\ y.cancelled = worker[w].cancelled /\ y.buffer = FALSE
  <2>1. p \in Places /\ n \in 0..2 /\ 0 \in 0..MaxEvents
    BY <1>1 DEF Places
  <2>2. y \in WorkerType /\ y.at = p /\ y.req = worker[w].req /\ y.owed = worker[w].owed /\ y.pieces = n
    BY <1>w, <2>1, PiecesType
  <2>3. y.cancelled = worker[w].cancelled
    BY <1>w, <2>1, PiecesType
  <2>4. y.buffer = FALSE
    BY <1>w, <2>2, PutFlags DEF WorkerType
  <2> QED BY <2>2, <2>3, <2>4
<1> HIDE DEF y
<1>4. InHand(y) = n
  BY <1>1, <1>3 DEF InHand
<1>5. InHand(worker[w]) = n \/ p = "end"
  BY <1>w, <1>1 DEF InHand, Good, p, n
<1>6. worker[w].cancelled => worker[w].owed >= InHand(worker[w])
  BY <1>w DEF Good
<1>7. Good(y)
  BY <1>w, <1>1, <1>3, <1>4, <1>5, <1>6 DEF Good
<1>8. y.at # "gone"
  BY <1>1, <1>3
<1> QED BY <1>u, <1>w, <1>2, <1>7, <1>8, WorkStep

(* A piece goes out: of an interrupted request, one of those it owes.          *)
LEMMA SendCrew ==
  ASSUME Crew, NEW w \in Workers, SendPiece(w)
  PROVE  Crew'
<1>w. worker[w] \in WorkerType /\ Good(worker[w]) /\ worker[w].at = "send"
  BY DEF SendPiece, At, Crew
<1>u. UNCHANGED <<queue, current, cancels, stranded>>
  BY DEF SendPiece
<1>1. CASE Go(w, "tell")
  BY <1>1, <1>u, <1>w, GoCrew
<1>2. CASE ~ Go(w, "tell")
  <2> DEFINE o == IF worker[w].cancelled THEN worker[w].owed - 1 ELSE worker[w].owed
             p == IF worker[w].pieces > 1 THEN "send" ELSE "stream"
             y == [worker[w] EXCEPT !.pieces = worker[w].pieces - 1, !.owed = o, !.at = p]
  <2>1. worker' = [worker EXCEPT ![w] = y]
    BY <1>2 DEF SendPiece, Crew
  <2>2. worker[w].pieces \in 1..2 /\ worker[w].owed \in Int /\ worker[w].buffer \in BOOLEAN
    BY <1>w DEF Good, WorkerType
  <2>3. o \in Int /\ p \in {"send", "stream"} /\ worker[w].pieces - 1 \in 0..2
    BY <2>2
  <2>4. p = "send" <=> worker[w].pieces > 1
    OBVIOUS
  <2>5. (worker[w].cancelled => o = worker[w].owed - 1) /\ (~ worker[w].cancelled => o = worker[w].owed)
    OBVIOUS
  <2> HIDE DEF o, p
  <2>6. /\ y \in WorkerType /\ y.at = p /\ y.req = worker[w].req /\ y.owed = o
        /\ y.pieces = worker[w].pieces - 1 /\ y.cancelled = worker[w].cancelled /\ y.buffer = worker[w].buffer
    BY <1>w, <2>3 DEF WorkerType, Places
  <2> HIDE DEF y
  <2>7. InHand(worker[w]) >= worker[w].pieces /\ InHand(y) = InHand(worker[w]) - 1
    BY <2>2, <2>6 DEF InHand
  <2>8. worker[w].cancelled => worker[w].owed >= InHand(worker[w])
    BY <1>w DEF Good
  <2>9. o >= 0 /\ (y.cancelled => o >= InHand(y))
    <3>1. CASE worker[w].cancelled
      <4>1. InHand(worker[w]) \in Int
        BY <2>2 DEF InHand
      <4> QED BY <3>1, <4>1, <2>2, <2>5, <2>6, <2>7, <2>8
    <3>2. CASE ~ worker[w].cancelled
      BY <3>2, <1>w, <2>5, <2>6 DEF Good
    <3> QED BY <3>1, <3>2
  <2>10. Good(y)
    BY <1>w, <2>2, <2>3, <2>4, <2>6, <2>9 DEF Good
  <2>11. y.at # "gone"
    BY <2>3, <2>6
  <2> QED BY <1>u, <1>w, <2>1, <2>10, <2>11, WorkStep
<1> QED BY <1>1, <1>2

LEMMA WorkCrew ==
  ASSUME Crew, NEW w \in Workers, Work(w)
  PROVE  Crew'
<1>1. CASE Take(w)
  BY <1>1, TakeCrew
<1>2. CASE Begin(w)
  BY <1>2, BeginCrew
<1>3. CASE Event(w)
  BY <1>3, EventCrew
<1>4. CASE LastEvent(w)
  BY <1>4, LastCrew
<1>5. CASE StreamFails(w)
  BY <1>5, GoCrew DEF StreamFails, At
<1>6. CASE SendPiece(w)
  BY <1>6, SendCrew
<1>7. CASE Tell(w)
  <2>1. CASE Go(w, "end") /\ UNCHANGED <<current, cancels, stranded>>
    BY <1>7, <2>1, GoCrew DEF Tell, At
  <2>2. CASE Leave(w) /\ stranded' = (queue # <<>>)
    <3>1. stranded' \in BOOLEAN /\ (queue # <<>> => stranded')
      BY <2>2
    <3>2. worker[w].at # "gone" /\ UNCHANGED queue
      BY <1>7 DEF Tell, At
    <3> QED BY <2>2, <3>1, <3>2, LeaveStep
  <2> QED BY <1>7, <2>1, <2>2 DEF Tell
<1> QED BY <1>1, <1>2, <1>3, <1>4, <1>5, <1>6, <1>7 DEF Work

------------------------------------------------------------------------------
(* The invariant.                                                              *)
LEMMA InitInv == Init => Inv
<1> SUFFICES ASSUME Init PROVE Inv
  OBVIOUS
<1>1. Mail
  BY Numbers DEF Init, Mail, BotType, CallType
<1>2. Crew
  <2>1. worker \in [Workers -> WorkerType] /\ \A w \in Workers : worker[w] = Gone
    BY GoneType DEF Init
  <2>2. (\A w \in Workers : Good(worker[w])) /\ Sole
    BY <2>1, GoneType DEF Sole
  <2>3. QueueIsWorked /\ queue \in Seq(Requests)
    BY DEF Init, QueueIsWorked
  <2>4. current \in 0..MaxWorkers /\ cancels \in 0..MaxWorkers
    BY DEF Init
  <2>5. stranded \in BOOLEAN
    BY DEF Init
  <2> QED BY <2>1, <2>2, <2>3, <2>4, <2>5 DEF Crew
<1>3. Books
  BY DEF Init, Books
<1> QED BY <1>1, <1>2, <1>3 DEF Inv

(* The crew is not touched.                                                    *)
LEMMA IdleCrew ==
  ASSUME Crew, UNCHANGED <<queue, worker, current, cancels, stranded>>
  PROVE  Crew'
<1>1. Sole' /\ QueueIsWorked'
  BY DEF Crew, Sole, QueueIsWorked, Live
<1> QED BY <1>1 DEF Crew

LEMMA QueuedType ==
  ASSUME Crew
  PROVE  Queued \subseteq Messages
<1>1. \A i \in DOMAIN queue : queue[i] \in Requests
  BY DEF Crew
<1> QED BY <1>1 DEF Queued, Requests

LEMMA RequestMessage ==
  ASSUME Crew, NEW w \in Workers, worker[w].at \notin {"gone", "new"}
  PROVE  worker[w].req.msg \in Messages
<1>1. worker[w].req \in Requests
  BY DEF Crew, Good
<1> QED BY <1>1 DEF Requests

LEMMA FaultType ==
  ASSUME faults \in 0..MaxFaults, Fault \/ Healthy
  PROVE  faults' \in 0..MaxFaults
  BY DEF Fault, Healthy

LEMMA AcceptInv ==
  ASSUME Inv, NEW c \in Callers, Accept(c)
  PROVE  Inv'
<1>1. Mail /\ Crew /\ Books /\ call[c] = "accept" /\ UNCHANGED <<sent, confirmed, faults, restarts>>
  BY DEF Inv, Accept
<1>2. Message(c) \in Messages /\ Request(c) \in Requests
  BY <1>1, MessageType
<1>3. Mail'
  BY <1>1, NotifyMail, ReturnMail DEF Accept, AnswerAtOnce, StartWorker, Wait, Interrupt
<1>4. Crew'
  <2>1. CASE AnswerAtOnce(c)
    BY <1>1, <2>1, IdleCrew DEF AnswerAtOnce
  <2>2. CASE StartWorker(c)
    BY <1>1, <1>2, <2>2, StartCrew
  <2>3. CASE Wait(c)
    BY <1>1, <1>2, <2>3, WaitCrew
  <2>4. CASE Interrupt(c)
    BY <1>1, <1>2, <2>4, InterruptCrew
  <2> QED BY <2>1, <2>2, <2>3, <2>4 DEF Accept
<1>5. settled' \subseteq Messages
  BY <1>1, <1>2, QueuedType DEF Books, Accept, AnswerAtOnce, StartWorker, Wait, Interrupt
<1>6. Books'
  BY <1>1, <1>2, <1>5 DEF Books, Accept
<1> QED BY <1>3, <1>4, <1>6 DEF Inv

LEMMA NoticeInv ==
  ASSUME Inv, NEW c \in Callers, Notice(c)
  PROVE  Inv'
<1>1. /\ Mail /\ Crew /\ Books /\ call[c] = "notice"
      /\ UNCHANGED <<sent, confirmed, queue, worker, current, cancels, restarts, handled, settled, stranded>>
  BY DEF Inv, Notice
<1>2. CASE Return(c) /\ Healthy
  BY <1>1, <1>2, ReturnMail, IdleCrew DEF Inv, Books, Healthy
<1>3. CASE /\ Fault
           /\ call' = [call EXCEPT ![c] = IF c = BotCall THEN "none" ELSE "closed"]
           /\ bot' = IF c = BotCall THEN [bot EXCEPT !.up = FALSE] ELSE bot
  <2>1. Mail'
    <3>1. CASE c = BotCall
      <4>1. call' = [call EXCEPT ![c] = "none"] /\ bot' = [bot EXCEPT !.up = FALSE]
        BY <1>3, <3>1
      <4>2. bot' \in BotType /\ bot'.last = bot.last
        BY <1>1, <4>1 DEF Mail, BotType
      <4>3. call' \in CallType /\ call'[BotCall] = "none"
        BY <1>1, <3>1, <4>1 DEF Mail, CallType
      <4> QED BY <1>1, <4>2, <4>3 DEF Mail
    <3>2. CASE c # BotCall
      BY <1>1, <1>3, <3>2, CallMail
    <3> QED BY <3>1, <3>2
  <2>2. Crew'
    BY <1>1, IdleCrew
  <2>3. Books'
    BY <1>1, <1>3, FaultType DEF Books
  <2> QED BY <2>1, <2>2, <2>3 DEF Inv
<1> QED BY <1>2, <1>3 DEF Notice

LEMMA WorkInv ==
  ASSUME Inv, NEW w \in Workers, Work(w)
  PROVE  Inv'
<1>1. Mail /\ Crew /\ Books
  BY DEF Inv
<1>2. Still /\ (Fault \/ Healthy)
  BY DEF Work, Take, Begin, Event, LastEvent, StreamFails, SendPiece, Tell, Healthy, Fails
<1>3. Mail'
  BY <1>1, <1>2 DEF Mail, Still
<1>4. Crew'
  BY <1>1, WorkCrew
<1>5. settled' \subseteq Messages
  <2>1. CASE settled' = settled
    BY <1>1, <2>1 DEF Books
  <2>2. CASE worker[w].at = "end" /\ settled' = settled \cup {worker[w].req.msg}
    BY <1>1, <2>2, RequestMessage DEF Books
  <2>3. CASE worker[w].at = "tell" /\ settled' = settled \cup {worker[w].req.msg}
    BY <1>1, <2>3, RequestMessage DEF Books
  <2>4. ASSUME Take(w) \/ Tell(w) PROVE settled' \subseteq Messages
    BY <2>1, <2>2, <2>3, <2>4 DEF Take, Tell, At
  <2>5. ASSUME Begin(w) \/ Event(w) \/ LastEvent(w) \/ StreamFails(w) \/ SendPiece(w) PROVE settled' \subseteq Messages
    BY <2>1, <2>5 DEF Begin, Event, LastEvent, StreamFails, SendPiece
  <2> QED BY <2>4, <2>5 DEF Work
<1>6. Books'
  BY <1>1, <1>2, <1>5, FaultType DEF Books, Still
<1> QED BY <1>3, <1>4, <1>6 DEF Inv

LEMMA NextUpdate ==
  ASSUME NEW a \in 0..MaxTelegram, NEW b \in 0..MaxTelegram, a <= b, a # b
  PROVE  a + 1 \in Telegram /\ a + 1 \in Nat
  BY DEF Telegram

LEMMA BotInv ==
  ASSUME Inv, Send \/ Poll \/ Supervise
  PROVE  Inv'
<1>1. /\ Mail /\ Crew /\ Books
      /\ UNCHANGED <<queue, worker, current, cancels, faults, restarts, handled, settled, stranded>>
  BY DEF Inv, Send, Poll, Supervise
<1>2. Crew' /\ Books'
  BY <1>1, IdleCrew DEF Books
<1>3. CASE Send
  <2>1. sent' \in 0..MaxTelegram /\ sent' = sent + 1 /\ UNCHANGED <<confirmed, bot, call>>
    BY <1>1, <1>3 DEF Send, Mail
  <2> QED BY <1>1, <1>2, <2>1 DEF Inv, Mail, BotType
<1>4. CASE Poll
  <2>1. confirmed' \in 0..MaxTelegram /\ confirmed' <= sent /\ UNCHANGED sent
    BY <1>1, <1>4 DEF Poll, Mail, BotType
  <2>2. CASE confirmed' = sent
    BY <1>1, <1>2, <1>4, <2>1, <2>2 DEF Poll, Inv, Mail
  <2>3. CASE confirmed' # sent
    <3>1. /\ bot' = [bot EXCEPT !.next = confirmed' + 1, !.last = sent]
          /\ call' = [call EXCEPT ![BotCall] = "accept"] /\ bot.up
      BY <1>4, <2>3 DEF Poll
    <3>2. confirmed' + 1 \in Telegram /\ confirmed' + 1 \in Nat /\ sent \in 0..MaxTelegram
      <4>1. sent \in 0..MaxTelegram /\ confirmed' \in 0..MaxTelegram
        BY <1>1, <2>1 DEF Mail
      <4>2. confirmed' <= sent /\ confirmed' # sent
        BY <2>1, <2>3
      <4> QED BY <4>1, <4>2, NextUpdate
    <3>3. bot' \in BotType /\ bot'.next = confirmed' + 1 /\ bot'.last = sent /\ bot'.up
      BY <1>1, <3>1, <3>2 DEF Mail, BotType
    <3>4. call' \in CallType
      BY <1>1, <3>1 DEF Mail, CallType
    <3>5. Mail'
      BY <2>1, <3>2, <3>3, <3>4 DEF Mail
    <3> QED BY <1>2, <3>5 DEF Inv
  <2> QED BY <2>2, <2>3
<1>5. CASE Supervise
  <2>1. bot' \in BotType /\ bot'.last = 0 /\ UNCHANGED <<sent, confirmed, call>> /\ ~ bot.up
    BY <1>1, <1>5 DEF Supervise, Mail, BotType
  <2> QED BY <1>1, <1>2, <2>1 DEF Inv, Mail
<1> QED BY <1>3, <1>4, <1>5

LEMMA RestartInv ==
  ASSUME Inv, Restart
  PROVE  Inv'
<1>1. Mail /\ Crew /\ Books
  BY DEF Inv
<1>2. Mail'
  <2>1. bot' \in BotType /\ bot'.last = 0 /\ UNCHANGED <<sent, confirmed>>
    BY <1>1 DEF Restart, Mail, BotType
  <2>2. call' \in CallType /\ call'[BotCall] = "none"
    BY Numbers DEF Restart, CallType
  <2> QED BY <1>1, <2>1, <2>2 DEF Mail
<1>3. Crew'
  <2>1. worker' \in [Workers -> WorkerType] /\ \A w \in Workers : worker'[w] = Gone
    BY GoneType DEF Restart
  <2>2. (\A w \in Workers : Good(worker'[w])) /\ Sole'
    BY <2>1, GoneType DEF Sole
  <2>3. QueueIsWorked' /\ queue' \in Seq(Requests)
    BY DEF Restart, QueueIsWorked
  <2>4. current' \in 0..MaxWorkers /\ cancels' \in 0..MaxWorkers
    BY DEF Restart
  <2>5. stranded' \in BOOLEAN
    BY DEF Restart
  <2> QED BY <2>1, <2>2, <2>3, <2>4, <2>5 DEF Crew
<1>4. Books'
  <2>1. {worker[w].req.msg : w \in {v \in Workers : worker[v].at \notin {"gone", "new"}}} \subseteq Messages
    BY <1>1, RequestMessage
  <2>2. settled' \subseteq Messages
    BY <1>1, <2>1, QueuedType DEF Restart, Books
  <2>3. restarts' \in 0..MaxRestarts
    BY <1>1 DEF Restart, Books
  <2> QED BY <1>1, <2>2, <2>3 DEF Restart, Books
<1> QED BY <1>2, <1>3, <1>4 DEF Inv

LEMMA NextInv == Inv /\ [Next]_vars => Inv'
<1> SUFFICES ASSUME Inv, [Next]_vars PROVE Inv'
  OBVIOUS
<1>1. CASE Send \/ Poll \/ Supervise
  BY <1>1, BotInv
<1>2. CASE Restart
  BY <1>2, RestartInv
<1>3. ASSUME NEW c \in Callers, Serve(c) PROVE Inv'
  <2>1. CASE Accept(c)
    BY <2>1, AcceptInv
  <2>2. CASE Notice(c)
    BY <2>2, NoticeInv
  <2>3. CASE Close(c)
    <3>1. c # BotCall \/ call[BotCall] = "closing"
      BY <2>3 DEF Close
    <3>2. Crew' /\ Books'
      BY <2>3, IdleCrew DEF Close, Inv, Books
    <3>3. Mail'
      <4>1. call' = [call EXCEPT ![c] = "closed"] /\ UNCHANGED <<sent, confirmed, bot>> /\ Mail
        BY <2>3 DEF Close, Inv
      <4>2. call' \in CallType
        BY <4>1 DEF Mail, CallType
      <4>3. call'[BotCall] \in {"accept", "notice"} => call[BotCall] \in {"accept", "notice"}
        BY <4>1, Numbers DEF Mail, CallType
      <4> QED BY <4>1, <4>2, <4>3 DEF Mail
    <3> QED BY <3>2, <3>3 DEF Inv
  <2> QED BY <1>3, <2>1, <2>2, <2>3 DEF Serve
<1>4. ASSUME NEW h \in Webhooks, Webhook(h) PROVE Inv'
  <2>1. Crew' /\ Books'
    BY <1>4, IdleCrew DEF Webhook, Inv, Books
  <2>2. Mail'
    BY <1>4, Numbers, CallMail DEF Webhook, Inv
  <2> QED BY <2>1, <2>2 DEF Inv
<1>5. ASSUME NEW w \in Workers, Work(w) PROVE Inv'
  BY <1>5, WorkInv
<1>6. CASE UNCHANGED vars
  BY <1>6, IdleCrew DEF vars, Inv, Mail, Books
<1> QED BY <1>1, <1>2, <1>3, <1>4, <1>5, <1>6 DEF Next

LEMMA AlwaysInv == Spec => []Inv
  BY InitInv, NextInv, PTL DEF Spec

(* Every value the bridge keeps is of its type.                                *)
THEOREM BridgeTypeCorrect == Spec => []BridgeTypeOK
  BY AlwaysInv, InvGivesType, PTL

(* A user's requests run one at a time, whatever channels they come from       *)
(* (_sender_worker).                                                           *)
THEOREM OneWorkerAtATime == Spec => []OneWorker
  BY AlwaysInv, InvGivesRest, PTL

(* No request is left in the queue by a worker that ends, unless it died of an *)
(* error it could not report.                                                  *)
THEOREM QueueServed == Spec => []QueueIsWorked
  BY AlwaysInv, InvGivesRest, PTL

(* An interrupted request sends what it had in hand and nothing after that.    *)
THEOREM InterruptHonoured == Spec => []InterruptTakesEffect
  BY AlwaysInv, InvGivesRest, PTL

------------------------------------------------------------------------------
(* Order.  A request that has been taken over is settled, waits, or is being   *)
(* worked on; the bot has taken over whatever it is past; and what waits or is *)
(* being worked on has no earlier Telegram message behind it.                  *)
Busy(w) == worker[w].at \notin {"gone", "new"}
Runs(m) == \E w \in Workers : Busy(w) /\ worker[w].req.msg = m
Held(m) == m \in settled \/ m \in Queued \/ Runs(m)

BotOrder ==
  \A m \in Telegram :
    /\ m <= confirmed => Held(m)
    /\ call[BotCall] = "accept" /\ m < bot.next => Held(m)
    /\ call[BotCall] = "notice" /\ m <= bot.next => Held(m)
    /\ call[BotCall] = "none" /\ bot.up /\ m <= bot.last => Held(m)

RunOrder ==
  \A w \in Workers : Busy(w) /\ worker[w].req.msg \in Telegram =>
    \A m \in Telegram : m < worker[w].req.msg => m \in settled

QueueOrder ==
  \A i \in DOMAIN queue : queue[i].msg \in Telegram =>
    \A m \in Telegram : m < queue[i].msg =>
      m \in settled \/ Runs(m) \/ \E j \in 1..(i - 1) : queue[j].msg = m

Order == BotOrder /\ RunOrder /\ QueueOrder

(* What is taken over stays taken over.                                        *)
LEMMA BotFrame ==
  ASSUME BotOrder, \A m \in Telegram : Held(m) => Held(m)', call'[BotCall] = call[BotCall], UNCHANGED <<confirmed, bot>>
  PROVE  BotOrder'
  BY DEF BotOrder

LEMMA OrderFrame ==
  ASSUME Order, settled \subseteq settled', UNCHANGED queue,
         \A v \in Workers : Busy(v)' => Busy(v) /\ worker'[v].req = worker[v].req,
         \A v \in Workers : Busy(v) => worker[v].req.msg \in settled' \/ (Busy(v)' /\ worker'[v].req = worker[v].req)
  PROVE  RunOrder' /\ QueueOrder' /\ \A m \in Telegram : Held(m) => Held(m)'
<1>1. \A m : Runs(m) => m \in settled' \/ Runs(m)'
  BY DEF Runs
<1>2. Queued' = Queued
  BY DEF Queued
<1>3. RunOrder'
  BY DEF Order, RunOrder
<1>4. QueueOrder'
  <2> SUFFICES ASSUME NEW i \in DOMAIN queue, queue[i].msg \in Telegram, NEW m \in Telegram, m < queue[i].msg
               PROVE  m \in settled' \/ Runs(m)' \/ \E j \in 1..(i - 1) : queue[j].msg = m
    BY DEF QueueOrder
  <2> QED BY <1>1 DEF Order, QueueOrder
<1>5. \A m \in Telegram : Held(m) => Held(m)'
  BY <1>1, <1>2 DEF Held
<1> QED BY <1>3, <1>4, <1>5

(* The bot goes on: it has taken over the message it was at.                   *)
LEMMA PassOn ==
  ASSUME Mail, BotOrder, NEW c \in Callers, call[c] \in {"accept", "notice"}, Notify(c) \/ Return(c), UNCHANGED confirmed,
         \A m \in Telegram : Held(m) => Held(m)',
         c = BotCall => \A m \in Telegram : m <= bot.next => Held(m)'
  PROVE  BotOrder'
<1>1. CASE c # BotCall
  <2>1. call'[BotCall] = call[BotCall] /\ UNCHANGED bot
    BY <1>1, Numbers DEF Notify, Return, Mail, CallType
  <2> QED BY <2>1, BotFrame
<1>2. CASE c = BotCall /\ Notify(c)
  <2>1. call'[BotCall] = "notice" /\ UNCHANGED bot
    BY <1>2 DEF Notify, Mail, CallType
  <2> QED BY <1>2, <2>1 DEF BotOrder
<1>3. CASE c = BotCall /\ Return(c)
  <2>1. \A m \in Telegram : m <= confirmed' => Held(m)'
    BY DEF BotOrder
  <2>2. bot.next \in Int /\ bot.last \in Int /\ \A m \in Telegram : m \in Int
    BY DEF Mail, BotType, Telegram
  <2>3. CASE bot.next < bot.last
    <3>1. call'[BotCall] = "accept" /\ bot'.next = bot.next + 1
      BY <1>3, <2>3 DEF Return, Mail, CallType, BotType
    <3>2. \A m \in Telegram : m < bot'.next => m <= bot.next
      BY <2>2, <3>1
    <3> QED BY <1>3, <2>1, <3>1, <3>2 DEF BotOrder
  <2>4. CASE ~ (bot.next < bot.last)
    <3>1. call'[BotCall] = "none" /\ bot'.last = bot.last
      BY <1>3, <2>4 DEF Return, Mail, CallType, BotType
    <3>2. \A m \in Telegram : m <= bot'.last => m <= bot.next
      BY <2>2, <2>4, <3>1
    <3> QED BY <1>3, <2>1, <3>1, <3>2 DEF BotOrder
  <2> QED BY <2>3, <2>4
<1> QED BY <1>1, <1>2, <1>3

(* A request joins the queue when every earlier one has been taken over.       *)
LEMMA AppendOrder ==
  ASSUME Crew, QueueOrder, NEW r \in Requests, queue' = Append(queue, r), UNCHANGED settled,
         \A m \in Telegram : Runs(m) => Runs(m)',
         r.msg \in Telegram => \A m \in Telegram : m < r.msg => Held(m)
  PROVE  QueueOrder' /\ r.msg \in Queued' /\ \A m \in Telegram : Held(m) => Held(m)'
<1>1. /\ queue \in Seq(Requests) /\ Len(queue) \in Nat /\ DOMAIN queue = 1..Len(queue)
      /\ DOMAIN queue' = 1..(Len(queue) + 1) /\ queue'[Len(queue) + 1] = r
      /\ \A i \in 1..Len(queue) : queue'[i] = queue[i]
  BY DEF Crew
<1>2. QueueOrder'
  <2> SUFFICES ASSUME NEW i \in DOMAIN queue', queue'[i].msg \in Telegram, NEW m \in Telegram, m < queue'[i].msg
               PROVE  m \in settled \/ Runs(m)' \/ \E j \in 1..(i - 1) : queue'[j].msg = m
    BY DEF QueueOrder
  <2>1. CASE i \in 1..Len(queue)
    <3>1. m \in settled \/ Runs(m) \/ \E j \in 1..(i - 1) : queue[j].msg = m
      BY <1>1, <2>1 DEF QueueOrder
    <3>2. \A j \in 1..(i - 1) : queue'[j] = queue[j]
      BY <1>1, <2>1
    <3> QED BY <3>1, <3>2
  <2>2. CASE i = Len(queue) + 1
    <3>1. Held(m)
      BY <1>1, <2>2
    <3>2. CASE m \in Queued
      <4>1. PICK j \in DOMAIN queue : queue[j].msg = m
        BY <3>2 DEF Queued
      <4>2. j \in 1..(i - 1) /\ queue'[j] = queue[j]
        BY <1>1, <2>2
      <4> QED BY <4>1, <4>2
    <3> QED BY <3>1, <3>2 DEF Held
  <2> QED BY <1>1, <2>1, <2>2
<1>3. r.msg \in Queued' /\ \A m \in Queued : m \in Queued'
  <2>1. Len(queue) + 1 \in DOMAIN queue' /\ \A i \in DOMAIN queue : i \in DOMAIN queue' /\ queue'[i] = queue[i]
    BY <1>1
  <2> QED BY <1>1, <2>1 DEF Queued
<1> QED BY <1>2, <1>3 DEF Held

(* Every Telegram message before the one the bot is at has been taken over.    *)
LEMMA BeforeIsHeld ==
  ASSUME Mail, BotOrder, NEW c \in Callers, call[c] = "accept"
  PROVE  /\ Message(c) \in Telegram => \A m \in Telegram : m < Message(c) => Held(m)
         /\ c = BotCall => Message(c) = bot.next /\ \A m \in Telegram : m <= bot.next => m = Message(c) \/ Held(m)
<1>1. CASE c = BotCall
  <2>1. bot.next \in Int /\ \A m \in Telegram : m \in Int
    BY DEF Mail, BotType, Telegram
  <2>2. Message(c) = bot.next
    BY <1>1 DEF Message
  <2> QED BY <1>1, <2>1, <2>2 DEF BotOrder
<1>2. CASE c # BotCall
  <2>1. Message(c) \in Webhooks
    BY <1>2, Numbers DEF Message
  <2>2. Message(c) \notin Telegram
    BY <2>1 DEF Webhooks, Telegram
  <2> QED BY <1>2, <2>2
<1> QED BY <1>1, <1>2

LEMMA AcceptOrder ==
  ASSUME Inv, Order, NEW c \in Callers, Accept(c)
  PROVE  Order'
<1>1. /\ Mail /\ Crew /\ call[c] = "accept" /\ UNCHANGED confirmed
      /\ BotOrder /\ RunOrder /\ QueueOrder
  BY DEF Inv, Accept, Order
<1>2. Message(c) \in Messages /\ Request(c) \in Requests /\ Request(c).msg = Message(c)
  BY <1>1, MessageType DEF Request
<1>3. /\ Message(c) \in Telegram => \A m \in Telegram : m < Message(c) => Held(m)
      /\ c = BotCall => Message(c) = bot.next /\ \A m \in Telegram : m <= bot.next => m = Message(c) \/ Held(m)
  BY <1>1, BeforeIsHeld
<1>4. Notify(c) \/ Return(c)
  BY DEF Accept, AnswerAtOnce, StartWorker, Wait, Interrupt
<1>5. ASSUME RunOrder', QueueOrder', \A m \in Telegram : Held(m) => Held(m)',
             Message(c) \in settled' \/ Message(c) \in Queued'
      PROVE  Order'
  <2>1. c = BotCall => \A m \in Telegram : m <= bot.next => Held(m)'
    BY <1>3, <1>5 DEF Held
  <2>2. BotOrder'
    BY <1>1, <1>4, <1>5, <2>1, PassOn
  <2> QED BY <1>5, <2>2 DEF Order
<1>6. CASE AnswerAtOnce(c)
  <2>1. UNCHANGED <<queue, worker>> /\ settled \subseteq settled' /\ Message(c) \in settled'
    BY <1>6 DEF AnswerAtOnce
  <2>2. \A v \in Workers : (Busy(v)' <=> Busy(v)) /\ worker'[v].req = worker[v].req
    BY <2>1 DEF Busy
  <2>3. RunOrder' /\ QueueOrder' /\ \A m \in Telegram : Held(m) => Held(m)'
    BY <2>1, <2>2, OrderFrame
  <2> QED BY <1>5, <2>1, <2>3
<1>7. CASE StartWorker(c)
  <2> DEFINE y == [Gone EXCEPT !.at = "new"]
  <2>1. PICK w \in Workers : worker' = [worker EXCEPT ![w] = y]
    BY <1>7 DEF StartWorker
  <2>2. y.at = "new"
    BY DEF Gone
  <2>3. \A v \in Workers : worker[v].at = "gone"
    BY <1>1, <1>7 DEF StartWorker, Live, Crew, Sole, Workers
  <2>4. \A v \in Workers : ~ Busy(v) /\ ~ Busy(v)'
    BY <1>1, <2>1, <2>2, <2>3 DEF Crew, Busy
  <2>5. RunOrder' /\ \A m \in Telegram : ~ Runs(m)
    BY <2>4 DEF RunOrder, Runs
  <2>6. queue' = Append(queue, Request(c)) /\ UNCHANGED settled
    BY <1>7 DEF StartWorker
  <2>7. QueueOrder' /\ Message(c) \in Queued' /\ \A m \in Telegram : Held(m) => Held(m)'
    BY <1>1, <1>2, <1>3, <2>5, <2>6, AppendOrder
  <2> QED BY <1>5, <2>5, <2>7
<1>8. CASE Wait(c)
  <2>1. UNCHANGED <<worker, settled>> /\ queue' = Append(queue, Request(c))
    BY <1>8 DEF Wait
  <2>2. (\A m \in Telegram : Runs(m)' <=> Runs(m)) /\ RunOrder'
    BY <1>1, <2>1 DEF Runs, Busy, RunOrder
  <2>3. QueueOrder' /\ Message(c) \in Queued' /\ \A m \in Telegram : Held(m) => Held(m)'
    BY <1>1, <1>2, <1>3, <2>1, <2>2, AppendOrder
  <2> QED BY <1>5, <2>2, <2>3
<1>9. CASE Interrupt(c)
  <2>1. queue' = <<Request(c)>> /\ settled' = settled \cup Queued
    BY <1>9 DEF Interrupt
  <2>2. \A v \in Workers : (Busy(v)' <=> Busy(v)) /\ worker'[v].req = worker[v].req
    BY <1>1, <1>9 DEF Interrupt, Crew, WorkerType, Busy
  <2>3. \A m \in Telegram : Runs(m)' <=> Runs(m)
    BY <2>2 DEF Runs
  <2>4. RunOrder'
    BY <1>1, <2>1, <2>2 DEF RunOrder
  <2>5. \A m \in Telegram : Held(m) => m \in settled' \/ Runs(m)'
    BY <2>1, <2>3 DEF Held
  <2>6. DOMAIN queue' = {1} /\ queue'[1] = Request(c)
    BY <2>1
  <2>7. QueueOrder'
    BY <1>2, <1>3, <2>5, <2>6 DEF QueueOrder
  <2>8. Message(c) \in Queued'
    BY <1>2, <2>6 DEF Queued
  <2>9. \A m \in Telegram : Held(m) => Held(m)'
    BY <2>5 DEF Held
  <2> QED BY <1>5, <2>4, <2>7, <2>8, <2>9
<1> QED BY <1>6, <1>7, <1>8, <1>9 DEF Accept

(* A step within a request leaves everything where it was.                     *)
LEMMA StayOrder ==
  ASSUME Crew, Order, NEW w \in Workers, Busy(w), NEW y, y.at \notin {"gone", "new"}, y.req = worker[w].req,
         worker' = [worker EXCEPT ![w] = y], UNCHANGED <<queue, settled, confirmed, bot, call>>
  PROVE  Order'
<1>1. \A v \in Workers : (Busy(v)' <=> Busy(v)) /\ worker'[v].req = worker[v].req
  BY DEF Crew, Busy
<1>2. RunOrder' /\ QueueOrder' /\ \A m \in Telegram : Held(m) => Held(m)'
  BY <1>1, OrderFrame
<1>3. BotOrder'
  BY <1>2, BotFrame DEF Order
<1> QED BY <1>2, <1>3 DEF Order

LEMMA InnerOrder ==
  ASSUME Crew, Order, NEW w \in Workers,
         Begin(w) \/ Event(w) \/ LastEvent(w) \/ StreamFails(w) \/ SendPiece(w) \/ (At(w, "tell") /\ Go(w, "end")),
         UNCHANGED <<queue, settled, confirmed, bot, call>>
  PROVE  Order' /\ \A v \in Workers : At(v, "start")' => At(v, "start")
<1> DEFINE y == worker'[w]
           Moved == /\ worker' = [worker EXCEPT ![w] = y] /\ y.at \notin {"gone", "new"} /\ y.req = worker[w].req
                    /\ y.at = "start" => worker[w].at = "start"
<1>t. worker \in [Workers -> WorkerType]
  BY DEF Crew
<1>w. worker[w] \in WorkerType
  BY <1>t
<1>1. Busy(w)
  BY DEF Begin, Event, LastEvent, StreamFails, SendPiece, At, Busy
<1>2. ASSUME NEW p \in {"tell", "end"}, Go(w, p) PROVE Moved
  BY <1>2, <1>t, <1>w DEF Go, WorkerType
<1>3. Moved
  <2>1. CASE Begin(w)
    <3>1. CASE \E n \in 0..MaxEvents : worker' = [worker EXCEPT ![w].at = "stream", ![w].left = n]
      <4>1. PICK n \in 0..MaxEvents : worker' = [worker EXCEPT ![w].at = "stream", ![w].left = n]
        BY <3>1
      <4>2. y = [worker[w] EXCEPT !.at = "stream", !.left = n]
        BY <1>t, <4>1
      <4> QED BY <1>t, <1>w, <4>1, <4>2 DEF WorkerType
    <3>2. CASE worker' = [worker EXCEPT ![w].refreshed = TRUE]
      BY <1>t, <1>w, <1>1, <3>2 DEF WorkerType, Busy
    <3> QED BY <1>2, <2>1, <3>1, <3>2 DEF Begin
  <2>2. CASE Event(w)
    <3>1. CASE worker' = [worker EXCEPT ![w].left = worker[w].left - 1, ![w].buffer = TRUE]
      BY <1>t, <1>w, <1>1, <3>1 DEF WorkerType, Busy
    <3>2. ASSUME NEW n, worker' = [worker EXCEPT ![w].left = worker[w].left - 1, ![w].at = "send", ![w].pieces = n,
                                                 ![w].buffer = FALSE]
          PROVE  Moved
      BY <1>t, <1>w, <3>2 DEF WorkerType
    <3>3. CASE worker' = [worker EXCEPT ![w].left = worker[w].left - 1, ![w].at = "send", ![w].pieces = 1]
      BY <1>t, <1>w, <3>3 DEF WorkerType
    <3> QED BY <2>2, <3>1, <3>2, <3>3 DEF Event
  <2>3. CASE LastEvent(w)
    BY <1>t, <1>w, <2>3 DEF LastEvent, WorkerType
  <2>4. CASE StreamFails(w)
    BY <1>2, <2>4 DEF StreamFails
  <2>5. CASE SendPiece(w)
    <3>1. CASE Go(w, "tell")
      BY <1>2, <3>1
    <3>2. CASE ~ Go(w, "tell")
      BY <1>t, <1>w, <2>5, <3>2 DEF SendPiece, WorkerType
    <3> QED BY <3>1, <3>2
  <2>6. CASE At(w, "tell") /\ Go(w, "end")
    BY <1>2, <2>6
  <2> QED BY <2>1, <2>2, <2>3, <2>4, <2>5, <2>6
<1>4. \A v \in Workers : At(v, "start")' => At(v, "start")
  BY <1>3 DEF At, Crew
<1> HIDE DEF y
<1> QED BY <1>1, <1>3, <1>4, StayOrder

(* The worker leaves, and what it was at is settled.                           *)
LEMMA LeaveOrder ==
  ASSUME Crew, Order, NEW w \in Workers, worker[w].at # "gone", Leave(w), UNCHANGED <<queue, confirmed, bot, call>>,
         settled \subseteq settled', Busy(w) => worker[w].req.msg \in settled'
  PROVE  Order'
<1>1. \A v \in Workers : ~ Busy(v)' /\ (Busy(v) => v = w)
  BY GoneType DEF Crew, Sole, Busy, Leave
<1>2. RunOrder' /\ QueueOrder' /\ \A m \in Telegram : Held(m) => Held(m)'
  BY <1>1, OrderFrame
<1>3. BotOrder'
  BY <1>2, BotFrame DEF Order
<1> QED BY <1>2, <1>3 DEF Order

(* The worker takes the next request: whatever was sent before it is settled.  *)
LEMMA TakeOrder ==
  ASSUME Crew, Order, NEW w \in Workers, Take(w)
  PROVE  /\ Order'
         /\ \A v \in Workers : At(v, "start")' /\ ~ At(v, "start") =>
              \A m \in Telegram : m < worker'[v].req.msg /\ worker'[v].req.msg \in Telegram => m \in settled'
<1>s. settled \subseteq settled' /\ (Busy(w) => worker[w].req.msg \in settled') /\ UNCHANGED <<confirmed, bot, call>>
  BY DEF Take, At, Busy, Still
<1>1. CASE queue = <<>>
  <2>1. worker[w].at # "gone" /\ Leave(w) /\ UNCHANGED queue
    BY <1>1 DEF Take
  <2>2. \A v \in Workers : At(v, "start")' => At(v, "start")
    BY <2>1, GoneType DEF Leave, Crew, At
  <2> QED BY <1>s, <2>1, <2>2, LeaveOrder
<1>2. CASE queue # <<>>
  <2> DEFINE y == [Gone EXCEPT !.at = "start", !.req = Head(queue)]
  <2>1. /\ queue' = Tail(queue) /\ worker' = [worker EXCEPT ![w] = y]
        /\ y.at = "start" /\ y.req = Head(queue)
    BY <1>2 DEF Take, Gone
  <2> HIDE DEF y
  <2>2. /\ Len(queue) \in Nat \ {0} /\ DOMAIN queue = 1..Len(queue) /\ Head(queue) = queue[1] /\ 1 \in DOMAIN queue
        /\ DOMAIN queue' = 1..(Len(queue) - 1) /\ \A i \in 1..(Len(queue) - 1) : queue'[i] = queue[i + 1]
    BY <1>2, <2>1 DEF Crew
  <2>3. \A v \in Workers : (v # w => ~ Busy(v)) /\ worker'[v] = IF v = w THEN y ELSE worker[v]
    BY <2>1 DEF Crew, Sole, Busy, Take
  <2>4. \A v \in Workers : Busy(v)' <=> v = w
    BY <2>1, <2>3 DEF Busy
  <2>5. \A m \in Telegram : Runs(m) => m \in settled'
    BY <1>s, <2>3 DEF Runs
  <2>6. \A m : Runs(m)' <=> m = queue[1].msg
    BY <2>1, <2>2, <2>3, <2>4 DEF Runs
  <2>7. queue[1].msg \in Telegram => \A m \in Telegram : m < queue[1].msg => m \in settled'
    <3>1. \A m \in Telegram : queue[1].msg \in Telegram /\ m < queue[1].msg =>
            m \in settled \/ Runs(m) \/ \E j \in 1..(1 - 1) : queue[j].msg = m
      BY <2>2 DEF Order, QueueOrder
    <3> QED BY <1>s, <2>5, <3>1
  <2>8. RunOrder'
    BY <2>1, <2>2, <2>3, <2>4, <2>7 DEF RunOrder
  <2>9. QueueOrder'
    <3> SUFFICES ASSUME NEW i \in DOMAIN queue', queue'[i].msg \in Telegram, NEW m \in Telegram, m < queue'[i].msg
                 PROVE  m \in settled' \/ Runs(m)' \/ \E j \in 1..(i - 1) : queue'[j].msg = m
      BY DEF QueueOrder
    <3>1. i + 1 \in DOMAIN queue /\ queue[i + 1] = queue'[i] /\ i \in Nat
      BY <2>2
    <3>2. m \in settled \/ Runs(m) \/ \E j \in 1..((i + 1) - 1) : queue[j].msg = m
      BY <3>1 DEF Order, QueueOrder
    <3>3. ASSUME NEW j \in 1..((i + 1) - 1), queue[j].msg = m
          PROVE  Runs(m)' \/ \E k \in 1..(i - 1) : queue'[k].msg = m
      <4>1. CASE j = 1
        BY <2>6, <3>3, <4>1
      <4>2. CASE j # 1
        <5>1. j - 1 \in 1..(i - 1) /\ queue'[j - 1] = queue[j]
          BY <2>2, <3>1, <4>2
        <5> QED BY <3>3, <5>1
      <4> QED BY <4>1, <4>2
    <3> QED BY <1>s, <2>5, <3>2, <3>3
  <2>10. \A m \in Telegram : Held(m) => Held(m)'
    <3> SUFFICES ASSUME NEW m \in Telegram, m \in Queued PROVE Held(m)'
      BY <1>s, <2>5 DEF Held
    <3>1. PICK i \in DOMAIN queue : queue[i].msg = m
      BY DEF Queued
    <3>2. CASE i = 1
      BY <2>6, <3>1, <3>2 DEF Held
    <3>3. CASE i # 1
      <4>1. i - 1 \in DOMAIN queue' /\ queue'[i - 1] = queue[i]
        BY <2>2, <3>3
      <4> QED BY <3>1, <4>1 DEF Held, Queued
    <3> QED BY <3>2, <3>3
  <2>11. BotOrder'
    BY <1>s, <2>10, BotFrame DEF Order
  <2>12. \A v \in Workers : At(v, "start")' /\ ~ At(v, "start") => v = w
    BY <2>3 DEF At
  <2> QED BY <2>1, <2>2, <2>3, <2>7, <2>8, <2>9, <2>11, <2>12 DEF Order
<1> QED BY <1>1, <1>2

(* A step that leaves the requests alone.                                      *)
LEMMA RestOrder ==
  ASSUME Order, UNCHANGED <<queue, worker, settled>>
  PROVE  RunOrder' /\ QueueOrder' /\ \A m \in Telegram : Held(m) <=> Held(m)'
  BY DEF Order, RunOrder, QueueOrder, Held, Runs, Busy, Queued

LEMMA BotStepOrder ==
  ASSUME Inv, Order, Send \/ Poll \/ Supervise
  PROVE  Order'
<1>1. Mail /\ UNCHANGED <<queue, worker, settled>>
  BY DEF Inv, Send, Poll, Supervise
<1>2. RunOrder' /\ QueueOrder' /\ \A m \in Telegram : Held(m) <=> Held(m)'
  BY <1>1, RestOrder
<1>3. BotOrder'
  <2>1. CASE Send
    BY <1>2, <2>1, BotFrame DEF Send, Order
  <2>2. CASE Poll
    <3>1. \A m \in Telegram : m <= confirmed' => Held(m)'
      BY <1>2, <2>2 DEF Poll, Order, BotOrder
    <3>2. CASE confirmed' = sent
      BY <1>2, <2>2, <3>1, <3>2 DEF Poll, Order, BotOrder
    <3>3. CASE confirmed' # sent
      <4>1. call'[BotCall] = "accept" /\ bot'.next = confirmed' + 1
        BY <1>1, <2>2, <3>3, Numbers DEF Poll, Mail, CallType, BotType
      <4>2. confirmed' \in Int /\ \A m \in Telegram : m \in Int
        BY <1>1, <2>2 DEF Poll, Mail, BotType, Telegram
      <4>3. \A m \in Telegram : m < bot'.next => m <= confirmed'
        BY <4>1, <4>2
      <4> QED BY <3>1, <4>1, <4>3 DEF BotOrder
    <3> QED BY <3>2, <3>3
  <2>3. CASE Supervise
    <3>1. bot'.last = 0 /\ UNCHANGED <<call, confirmed>> /\ call[BotCall] \notin {"accept", "notice"}
      BY <1>1, <2>3 DEF Supervise, Mail
    <3>2. \A m \in Telegram : ~ (m <= 0)
      BY DEF Telegram
    <3> QED BY <1>2, <3>1, <3>2 DEF BotOrder, Order
  <2> QED BY <2>1, <2>2, <2>3
<1> QED BY <1>2, <1>3 DEF Order

LEMMA NoticeOrder ==
  ASSUME Inv, Order, NEW c \in Callers, Notice(c)
  PROVE  Order'
<1>1. Mail /\ UNCHANGED <<queue, worker, settled, confirmed>> /\ call[c] = "notice"
  BY DEF Inv, Notice
<1>2. RunOrder' /\ QueueOrder' /\ \A m \in Telegram : Held(m) <=> Held(m)'
  BY <1>1, RestOrder
<1>3. BotOrder'
  <2>1. CASE Return(c)
    <3>1. c = BotCall => \A m \in Telegram : m <= bot.next => Held(m)'
      BY <1>1, <1>2 DEF Order, BotOrder
    <3> QED BY <1>1, <1>2, <2>1, <3>1, PassOn DEF Order
  <2>2. CASE /\ call' = [call EXCEPT ![c] = IF c = BotCall THEN "none" ELSE "closed"]
             /\ bot' = IF c = BotCall THEN [bot EXCEPT !.up = FALSE] ELSE bot
    <3>1. CASE c = BotCall
      <4>1. call'[BotCall] = "none" /\ bot'.up = FALSE
        BY <1>1, <2>2, <3>1 DEF Mail, CallType, BotType
      <4> QED BY <1>1, <1>2, <4>1 DEF Order, BotOrder
    <3>2. CASE c # BotCall
      <4>1. call'[BotCall] = call[BotCall] /\ UNCHANGED bot
        BY <1>1, <2>2, <3>2, Numbers DEF Mail, CallType
      <4> QED BY <1>1, <1>2, <4>1, BotFrame DEF Order
    <3> QED BY <3>1, <3>2
  <2> QED BY <2>1, <2>2 DEF Notice
<1> QED BY <1>2, <1>3 DEF Order

LEMMA RestartOrder ==
  ASSUME Inv, Order, Restart
  PROVE  Order'
<1>1. queue' = <<>> /\ \A w \in Workers : ~ Busy(w)'
  BY GoneType DEF Restart, Busy
<1>2. RunOrder' /\ QueueOrder'
  BY <1>1 DEF RunOrder, QueueOrder
<1>3. \A m \in Telegram : Held(m) => m \in settled'
  BY DEF Restart, Held, Runs, Busy
<1>4. BotOrder'
  <2>1. bot'.last = 0 /\ UNCHANGED confirmed /\ call'[BotCall] = "none"
    BY Numbers DEF Restart
  <2>2. \A m \in Telegram : ~ (m <= 0)
    BY DEF Telegram
  <2> QED BY <1>3, <2>1, <2>2 DEF BotOrder, Order, Held
<1> QED BY <1>2, <1>4 DEF Order

LEMMA OrderInit == Init => Order
<1> SUFFICES ASSUME Init PROVE Order
  OBVIOUS
<1>1. RunOrder /\ QueueOrder
  BY GoneType DEF Init, RunOrder, QueueOrder, Busy
<1>2. \A m \in Telegram : ~ (m <= 0)
  BY DEF Telegram
<1>3. BotOrder
  BY <1>2, Numbers DEF Init, BotOrder
<1> QED BY <1>1, <1>3 DEF Order

OrderlyStart ==
  \A w \in Workers : At(w, "start")' /\ ~ At(w, "start") =>
    \A m \in Telegram : m < worker'[w].req.msg /\ worker'[w].req.msg \in Telegram => m \in settled'

LEMMA OrderStep ==
  ASSUME Inv, Order, [Next]_vars
  PROVE  Order' /\ OrderlyStart
<1>i. Mail /\ Crew
  BY DEF Inv
<1>n. ASSUME Order', \A w \in Workers : At(w, "start")' => At(w, "start") PROVE Order' /\ OrderlyStart
  BY <1>n DEF OrderlyStart
<1>1. CASE Send \/ Poll \/ Supervise
  <2>1. UNCHANGED worker
    BY <1>1 DEF Send, Poll, Supervise
  <2> QED BY <1>1, <1>n, <2>1, BotStepOrder DEF At
<1>2. CASE Restart
  <2>1. \A w \in Workers : ~ At(w, "start")'
    BY <1>2, GoneType DEF Restart, At
  <2> QED BY <1>2, <1>n, <2>1, RestartOrder
<1>3. ASSUME NEW c \in Callers, Serve(c) PROVE Order' /\ OrderlyStart
  <2>1. CASE Accept(c)
    <3>1. \A w \in Workers : At(w, "start")' => At(w, "start")
      <4>1. CASE StartWorker(c)
        BY <1>i, <4>1 DEF StartWorker, At, Crew, Gone
      <4>2. CASE Interrupt(c)
        BY <1>i, <4>2 DEF Interrupt, At, Crew, WorkerType
      <4>3. CASE AnswerAtOnce(c) \/ Wait(c)
        BY <4>3 DEF AnswerAtOnce, Wait, At
      <4> QED BY <2>1, <4>1, <4>2, <4>3 DEF Accept
    <3> QED BY <1>n, <2>1, <3>1, AcceptOrder
  <2>2. CASE Notice(c)
    <3>1. UNCHANGED worker
      BY <2>2 DEF Notice
    <3> QED BY <1>n, <2>2, <3>1, NoticeOrder DEF At
  <2>3. CASE Close(c)
    <3>1. /\ UNCHANGED <<queue, worker, settled, confirmed, bot>>
          /\ call[c] = "closing" /\ call' = [call EXCEPT ![c] = "closed"]
      BY <2>3 DEF Close
    <3>2. RunOrder' /\ QueueOrder' /\ \A m \in Telegram : Held(m) <=> Held(m)'
      BY <3>1, RestOrder
    <3>3. CASE c # BotCall
      <4>1. call'[BotCall] = call[BotCall]
        BY <1>i, <3>1, <3>3, Numbers DEF Mail, CallType
      <4> QED BY <1>n, <3>1, <3>2, <4>1, BotFrame DEF Order, At
    <3>4. CASE c = BotCall
      <4>1. call'[BotCall] = "closed"
        BY <1>i, <3>1, <3>4 DEF Mail, CallType
      <4>2. BotOrder'
        BY <3>1, <3>2, <4>1 DEF Order, BotOrder
      <4> QED BY <1>n, <3>1, <3>2, <4>2 DEF Order, At
    <3> QED BY <3>3, <3>4
  <2> QED BY <1>3, <2>1, <2>2, <2>3 DEF Serve
<1>4. ASSUME NEW h \in Webhooks, Webhook(h) PROVE Order' /\ OrderlyStart
  <2>1. UNCHANGED <<queue, worker, settled, confirmed, bot>> /\ call'[BotCall] = call[BotCall]
    BY <1>4, <1>i, Numbers DEF Webhook, Mail, CallType
  <2>2. RunOrder' /\ QueueOrder' /\ \A m \in Telegram : Held(m) <=> Held(m)'
    BY <2>1, RestOrder
  <2> QED BY <1>n, <2>1, <2>2, BotFrame DEF Order, At
<1>5. ASSUME NEW w \in Workers, Work(w) PROVE Order' /\ OrderlyStart
  <2>1. CASE Take(w)
    BY <1>i, <2>1, TakeOrder DEF OrderlyStart
  <2>2. ASSUME Begin(w) \/ Event(w) \/ LastEvent(w) \/ StreamFails(w) \/ SendPiece(w) \/ (At(w, "tell") /\ Go(w, "end")),
               UNCHANGED <<queue, settled, confirmed, bot, call>>
        PROVE  Order' /\ OrderlyStart
    BY <1>i, <1>n, <2>2, InnerOrder
  <2>3. CASE Begin(w) \/ Event(w) \/ LastEvent(w) \/ StreamFails(w) \/ SendPiece(w)
    BY <2>2, <2>3 DEF Begin, Event, LastEvent, StreamFails, SendPiece, Still
  <2>4. CASE Tell(w)
    <3>1. CASE Go(w, "end") /\ UNCHANGED settled
      BY <2>2, <2>4, <3>1 DEF Tell, Still
    <3>2. CASE Leave(w) /\ settled' = settled \cup {worker[w].req.msg}
      <4>1. worker[w].at # "gone" /\ UNCHANGED <<queue, confirmed, bot, call>>
        BY <2>4 DEF Tell, At, Still
      <4>2. \A v \in Workers : At(v, "start")' => At(v, "start")
        BY <1>i, <3>2, GoneType DEF Leave, Crew, At
      <4> QED BY <1>i, <1>n, <3>2, <4>1, <4>2, LeaveOrder
    <3> QED BY <2>4, <3>1, <3>2 DEF Tell
  <2> QED BY <1>5, <2>1, <2>3, <2>4 DEF Work
<1>6. CASE UNCHANGED vars
  <2>1. UNCHANGED <<queue, worker, settled, confirmed, bot, call>>
    BY <1>6 DEF vars
  <2>2. RunOrder' /\ QueueOrder' /\ \A m \in Telegram : Held(m) <=> Held(m)'
    BY <2>1, RestOrder
  <2> QED BY <1>n, <2>1, <2>2, BotFrame DEF Order, At
<1> QED BY <1>1, <1>2, <1>3, <1>4, <1>5, <1>6 DEF Next

(* A Telegram message is never begun before an earlier one is settled, through *)
(* crashes of the bot, redelivered batches, interrupts and restarts.           *)
THEOREM MessagesInOrder == Spec => InOrder
<1>1. Spec => []Order
  BY InitInv, OrderInit, AlwaysInv, OrderStep, PTL DEF Spec
<1>2. Inv /\ Order /\ [Next]_vars => OrderlyStart
  BY OrderStep
<1>3. OrderlyStart => [\A w \in Workers : At(w, "start")' /\ ~ At(w, "start") =>
         \A m \in Telegram : m < worker'[w].req.msg /\ worker'[w].req.msg \in Telegram => m \in settled']_vars
  BY DEF OrderlyStart
<1> QED BY <1>1, <1>2, <1>3, AlwaysInv, PTL DEF Spec, InOrder
==============================================================================
