------------------------------ MODULE JobStream ------------------------------
(* The two Redis Streams (high and low priority) and the consumer group that   *)
(* carry ingestion jobs.  Redis itself is external: the operators below are    *)
(* what the commands issued by the API and by the workers do.                  *)
(*                                                                             *)
(* A message is identified by its position in log.  A consumer's name never    *)
(* matters: workers read only new entries (">") and XCLAIM ignores the owner,  *)
(* so the pending-entries list is a function from message to delivery count.   *)
EXTENDS Naturals, Sequences, FiniteSets

CONSTANTS
  Files,        \* file identifiers (UUIDs)
  MaxLen,       \* MAXLEN ~ given to XADD and XTRIM (10000 in the code)
  MaxLog        \* bound of the model: number of messages ever added

ASSUME StreamAssumption == MaxLen \in Nat /\ MaxLog \in Nat

Streams     == {"high", "low"}
StartStages == {"parsing", "chunking", "cleanup", "markdown", "embedding",
                "indexing", "entity_extraction"}

(* The fields of a job the workers branch on; names, paths, tokens are data.   *)
(*   roles: role_ids is in the message;  pass: processing_config.start_pass    *)
Jobs == [file: Files, stream: Streams, start: StartStages, pass: 1..3,
         force: BOOLEAN, roles: BOOLEAN, retry: Nat]

VARIABLES
  log,       \* every job ever added, in order
  unread,    \* messages not yet delivered to the group
  pel,       \* pending-entries list: delivered, unacknowledged |-> times delivered
  idle,      \* pending messages delivered more than 60 s ago
  trimmed    \* messages removed from their stream by MAXLEN

streamVars == <<log, unread, pel, idle, trimmed>>

Ids     == 1 .. Len(log)
Pending == DOMAIN pel

StreamTypeOK ==
  /\ log \in Seq(Jobs)
  /\ unread \subseteq Ids
  /\ Pending \subseteq Ids
  /\ \A m \in Pending : pel[m] \in Nat
  /\ idle \subseteq Pending
  /\ trimmed \subseteq Ids

StreamInit ==
  /\ log = << >>
  /\ unread = {}
  /\ pel = << >>
  /\ idle = {}
  /\ trimmed = {}

Unread(s) == {m \in unread : log[m].stream = s}
Oldest(s) == {m \in Unread(s) : \A n \in Unread(s) : m <= n}

(* A trim with MAXLEN ~ removes some of the oldest entries of the stream, read *)
(* or not, and never leaves fewer than MaxLen.                                 *)
Present(l, s) == {m \in 1 .. Len(l) : l[m].stream = s /\ m \notin trimmed}
Trims(l, s) ==
  {T \in SUBSET Present(l, s) :
      /\ \A m \in T : \A n \in Present(l, s) \ T : m < n
      /\ T # {} => Cardinality(Present(l, s) \ T) >= MaxLen}

XADD(job) ==
  /\ Len(log) < MaxLog
  /\ log' = Append(log, job)
  /\ \E T \in Trims(log', job.stream) :
        /\ trimmed' = trimmed \cup T
        /\ unread' = (unread \cup {Len(log')}) \ T
  /\ UNCHANGED <<pel, idle>>

(* XADD without MAXLEN.                                                        *)
XADDUntrimmed(job) ==
  /\ Len(log) < MaxLog
  /\ log' = Append(log, job)
  /\ unread' = unread \cup {Len(log')}
  /\ UNCHANGED <<pel, idle, trimmed>>

(* Variant: NOACK, which leaves no pending entry behind.                       *)
XREADGROUPNoAck(s, m) ==
  /\ m \in Oldest(s)
  /\ unread' = unread \ {m}
  /\ UNCHANGED <<log, pel, idle, trimmed>>

(* XREADGROUP > COUNT 1 on stream s delivers m.                                *)
XREADGROUP(s, m) ==
  /\ m \in Oldest(s)
  /\ unread' = unread \ {m}
  /\ pel' = [i \in Pending \cup {m} |-> IF i = m THEN 1 ELSE pel[i]]
  /\ UNCHANGED <<log, idle, trimmed>>

(* Variant: min_idle_time 0.                                                   *)
XCLAIMAnyIdle(m) ==
  /\ m \in Pending
  /\ pel' = [pel EXCEPT ![m] = @ + 1]
  /\ idle' = idle \ {m}
  /\ UNCHANGED <<log, unread, trimmed>>

(* XCLAIM of an entry that was trimmed drops it from the pending list.         *)
XCLAIM(m) ==
  /\ m \in idle
  /\ IF m \in trimmed
     THEN pel' = [i \in Pending \ {m} |-> pel[i]]
     ELSE pel' = [pel EXCEPT ![m] = @ + 1]
  /\ idle' = idle \ {m}
  /\ UNCHANGED <<log, unread, trimmed>>

Acked(S) ==
  /\ pel' = [i \in Pending \ S |-> pel[i]]
  /\ idle' = idle \ S

XACK(m) == Acked({m}) /\ UNCHANGED <<log, unread, trimmed>>

XACKandXTRIM(m) ==
  /\ Acked({m})
  /\ \E T \in Trims(log, log[m].stream) :
        trimmed' = trimmed \cup T /\ unread' = unread \ T
  /\ UNCHANGED log
==============================================================================
