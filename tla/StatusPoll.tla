----------------------------- MODULE StatusPoll -----------------------------
(***************************************************************************)
(* GET /jobs/{id} polling a job while the pipeline runs: the handler reads *)
(* the row, and for an active job then reads the status hash, whose status *)
(* replaces the row's if its timestamp is later.                           *)
(*                                                                         *)
(* Both timestamps are modelled, in ticks of TicksPerSecond to a second:   *)
(* the row's updated_at keeps the tick, the hash's is cut to the second.   *)
(* The worker's clock and the database's show the same time.  Ageing a row *)
(* past its window takes minutes, so the clock passes into another second. *)
(***************************************************************************)
EXTENDS JobPipeline

CONSTANTS TicksPerSecond,
          MaxTime           \* bound on the clock

ASSUME ClockAssumption == /\ TicksPerSecond \in Nat \ {0}
                          /\ MaxTime \in Nat

VARIABLES now,     \* the clock
          rowAt,   \* rowAt[j]: updated_at of the row
          hashAt,  \* hashAt[j]: updated_at of the status hash
          read,    \* read[j]: the status and updated_at a poll has read
          told,    \* told[j]: the answer of the last poll, "none" before it
          had      \* had[j]: the statuses of the row since the poll read it

clockVars == <<now, rowAt, hashAt>>
pollVars == <<read, told, had>>

NoRead == [status |-> "none", at |-> 0]

PollInit == /\ Init
            /\ now = 0
            /\ rowAt = [j \in Jobs |-> 0]
            /\ hashAt = [j \in Jobs |-> 0]
            /\ read = [j \in Jobs |-> NoRead]
            /\ told = [j \in Jobs |-> "none"]
            /\ had = [j \in Jobs |-> {}]
-----------------------------------------------------------------------------
(* Timestamps                                                              *)

\* Mutant: the time is rounded up to a second.
_now_rfc3339Rounded(t) == t + TicksPerSecond - (t % TicksPerSecond)

\* The time without its fraction of a second.
_now_rfc3339(t) == t - (t % TicksPerSecond)

\* The step writes the row of j: its status changes, or a heartbeat finds it
\* running.
WritesRow(j) ==
    \/ status'[j] # status[j]
    \/ /\ status[j] = "running"
       /\ \E w \in Workers : job[w] = j /\ Heartbeat(w)

Publishes(w) == \/ PublishRunning(w) \/ PublishHeartbeat(w)
                \/ PublishCompleted(w) \/ PublishFailed(w) \/ PublishQueued(w)

\* A step of the pipeline, its timestamps, and what a running poll could have
\* seen of it.
Timed ==
    /\ Next
    /\ now' \in IF \E j \in Jobs : Age(j)
                THEN {t \in 0..MaxTime : _now_rfc3339(t) > now} ELSE {now}
    /\ rowAt' = [j \in Jobs |-> IF WritesRow(j) THEN now ELSE rowAt[j]]
    /\ hashAt' = [j \in Jobs |->
                    IF \E w \in Workers : job[w] = j /\ Publishes(w)
                    THEN _now_rfc3339(now) ELSE hashAt[j]]
    /\ had' = [j \in Jobs |-> IF read[j] = NoRead THEN {}
                              ELSE had[j] \cup {status'[j]}]
    /\ UNCHANGED <<read, told>>

Tick ==
    /\ now < MaxTime
    /\ now' = now + 1
    /\ UNCHANGED <<vars, rowAt, hashAt, pollVars>>
-----------------------------------------------------------------------------
(* Backend: GET /jobs/{id}                                                 *)

\* GetByID: an unknown job answers 404, a terminal one its row.
GetByID(j) ==
    /\ read[j] = NoRead
    /\ status[j] # "absent"
    /\ IF isActiveStatus(status[j])
       THEN /\ read' = [read EXCEPT ![j] = [status |-> status[j],
                                            at |-> rowAt[j]]]
            /\ had' = [had EXCEPT ![j] = {status[j]}]
            /\ UNCHANGED told
       ELSE told' = [told EXCEPT ![j] = status[j]] /\ UNCHANGED <<read, had>>
    /\ UNCHANGED <<vars, clockVars>>

\* GetJobStatus finds a hash with a later timestamp.
Fresher(j) == live[j] # "none" /\ hashAt[j] > read[j].at

\* An error of Redis or a malformed timestamp leaves the row's answer.
Answer(j) ==
    /\ read[j] # NoRead
    /\ \/ told' = [told EXCEPT ![j] = read[j].status]
       \/ Fresher(j) /\ told' = [told EXCEPT ![j] = live[j]]
    /\ read' = [read EXCEPT ![j] = NoRead]
    /\ had' = [had EXCEPT ![j] = {}]
    /\ UNCHANGED <<vars, clockVars>>

GetJob(j) == GetByID(j) \/ Answer(j)

PollNext == Timed \/ Tick \/ \E j \in Jobs : GetJob(j)

PollSpec == PollInit /\ [][PollNext]_<<vars, clockVars, pollVars>>
-----------------------------------------------------------------------------
(* Properties                                                              *)

\* A client that was told its job has ended can rely on it: the row is
\* terminal too, although the answer may come from a hash that was written
\* by another process after the row was read.  The answer and the row may
\* still disagree on how it ended.
ToldEnded == \A j \in Jobs : told[j] \in Terminal => status[j] \in Terminal

\* The answer to a poll is a status the row had at some moment of the poll,
\* or the job ended meanwhile: a hash left by an earlier attempt, or by the
\* reconciler's "queued" within the same second, never hides what the row
\* has become since.
AnswerWasTrue ==
    [][\A j \in Jobs : Answer(j) =>
          told'[j] \in had[j] \/ had[j] \cap Terminal # {}
      ]_<<vars, clockVars, pollVars>>

\* The status hash of a job that is still active never expires: publish sets
\* the expiry only after the row has ended, and an expiry survives later
\* publishes of the same key.  redis-schema.md: the TTL is "set to 24h after
\* job reaches a terminal state".
ExpiresOnlyEnded == \A j \in Jobs : ttl[j] => status[j] \in Terminal
=============================================================================
