------------------------------ MODULE VoiceHub ------------------------------
(***************************************************************************)
(* The local voice of the agents: the speech queue with its one worker,    *)
(* the router that tries the voice providers in turn under the audio lock, *)
(* the immediate checkpoint and the polling reporter that announce the     *)
(* mission's status through it, and the HTTP requests that speak without   *)
(* the queue.                                                              *)
(***************************************************************************)
EXTENDS Naturals, Sequences, FiniteSets

CONSTANTS
  Announcement, \* fingerprints of a status worth saying
  Statuses,     \* bound: the statuses ever written, each of an announcement
  Order,        \* the providers in the router's order, the local voice among them
  LocalVoice,   \* RHVoice, which needs no configuration and never cools down
  MaxJobs,      \* bound: jobs ever submitted
  Silence       \* no announcement

ASSUME VoiceAssumption ==
  /\ Silence \notin Announcement
  /\ Statuses \subseteq
       [of : Announcement, audio : BOOLEAN, fallback : BOOLEAN, active : BOOLEAN]
  /\ Order \in Seq({Order[i] : i \in DOMAIN Order}) /\ MaxJobs \in Nat

VARIABLES
  board,    \* the status file: the announcement, its rendered audio, the flags
  last,     \* the fingerprint in the last-spoken file
  producer, \* for each producer: where it stands, the status it read, its job
  jobs,     \* the jobs in the order of submission
  worker,   \* the queue's worker: its step, its job, the providers already passed
  tester,   \* an HTTP request that speaks in its own thread: "idle", "waiting", "playing"
  lock,     \* the holder of the audio lock, or "free"
  cooling   \* the providers that cool down after a failure

voiceVars == <<board, last, producer, jobs, worker, tester, lock, cooling>>

Producer == {"checkpoint", "reporter"}
NoStatus == [of |-> Silence, audio |-> FALSE, fallback |-> TRUE, active |-> FALSE]

Rested == [pc |-> "idle", read |-> NoStatus, job |-> 0]
Resting == [pc |-> "idle", job |-> 0, passed |-> {}, fx |-> FALSE, outcome |-> "none"]

VoiceInit ==
  /\ board = NoStatus /\ last = Silence /\ producer = [p \in Producer |-> Rested]
  /\ jobs = <<>> /\ worker = Resting /\ tester = "idle" /\ lock = "free" /\ cooling = {}

Set(p, r) == producer' = [producer EXCEPT ![p] = r]
Busy == \E j \in DOMAIN jobs : jobs[j].status \in {"QUEUED", "PLAYING"}

----------------------------------------------------------------------------
\* mcf-voice-status: any field of the status is written by hand.
SetStatus(b) ==
  /\ board' = b /\ UNCHANGED <<last, producer, jobs, worker, tester, lock, cooling>>

\* mcf-voice-checkpoint: the status is written first, and spoken at once.
Checkpoint(b) ==
  /\ producer["checkpoint"].pc = "idle" /\ b.active
  /\ board' = b /\ Set("checkpoint", [pc |-> "speak", read |-> b, job |-> 0])
  /\ UNCHANGED <<last, jobs, worker, tester, lock, cooling>>

\* main of the reporter: an active status that was not the last one spoken.
Poll ==
  /\ producer["reporter"].pc = "idle" /\ board.active /\ board.of # last
  /\ Set("reporter", [pc |-> "ask", read |-> board, job |-> 0])
  /\ UNCHANGED <<board, last, jobs, worker, tester, lock, cooling>>

\* queue_is_busy: the reporter defers to whoever speaks.
AskBusy ==
  /\ producer["reporter"].pc = "ask"
  /\ Set("reporter", IF Busy THEN Rested ELSE [producer["reporter"] EXCEPT !.pc = "speak"])
  /\ UNCHANGED <<board, last, jobs, worker, tester, lock, cooling>>

\* speak: the rendered audio if there is one, otherwise the text, into the queue.
Enqueue(p) ==
  LET r == producer[p] IN
  /\ r.pc \in {"speak", "fallback"} /\ Len(jobs) < MaxJobs
  /\ jobs' = Append(jobs, [of |-> r.read.of, audio |-> r.pc = "speak" /\ r.read.audio, status |-> "QUEUED"])
  /\ Set(p, [r EXCEPT !.pc = "wait", !.job = Len(jobs) + 1])
  /\ UNCHANGED <<board, last, worker, tester, lock, cooling>>

\* What a producer does when its job was not confirmed: the text after the audio, or an error.
NotConfirmed(p, audio) ==
  Set(p, IF audio /\ producer[p].read.fallback THEN [producer[p] EXCEPT !.pc = "fallback"] ELSE Rested)

\* The request is refused before a job exists: a path or a text VoiceHub does not take.
Refused(p) ==
  /\ producer[p].pc \in {"speak", "fallback"}
  /\ NotConfirmed(p, producer[p].pc = "speak" /\ producer[p].read.audio)
  /\ UNCHANGED <<board, last, jobs, worker, tester, lock, cooling>>

\* Variant: any answer without an error is a delivery, a job still queued too.
JobAccepted(j) == jobs[j].status # "FAILED"

\* _job_done: the answer is ok and the job is DONE.
JobDone(j) == jobs[j].status = "DONE"

\* The answer comes when the job has ended or when the wait is over, whatever
\* the job's status then is; a confirmed job is saved as the last one spoken.
Answered(p) ==
  LET r == producer[p] IN
  /\ r.pc = "wait"
  /\ IF JobDone(r.job) THEN last' = r.read.of /\ Set(p, Rested)
     ELSE NotConfirmed(p, jobs[r.job].audio) /\ UNCHANGED last
  /\ UNCHANGED <<board, jobs, worker, tester, lock, cooling>>

\* A producer's process dies or its request fails with the job in the queue.
Fails(p) ==
  /\ producer[p].pc = "wait"
  /\ \/ Set(p, Rested)
     \/ NotConfirmed(p, jobs[producer[p].job].audio)
  /\ UNCHANGED <<board, last, jobs, worker, tester, lock, cooling>>

----------------------------------------------------------------------------
\* The worker takes the oldest job; with radio_fx a cue is played around it.
TakeJob(fx) ==
  /\ worker.pc = "idle"
  /\ \E j \in DOMAIN jobs :
       /\ jobs[j].status = "QUEUED" /\ \A i \in 1 .. j - 1 : jobs[i].status # "QUEUED"
       /\ jobs' = [jobs EXCEPT ![j].status = "PLAYING"]
       /\ worker' = [pc |-> IF fx THEN "cue" ELSE "execute", job |-> j, passed |-> {}, fx |-> fx, outcome |-> "none"]
  /\ UNCHANGED <<board, last, producer, tester, lock, cooling>>

\* Rendered audio is played as it is, without the lock; text waits for the lock.
ExecuteJob ==
  /\ worker.pc \in {"cue", "execute"}
  /\ worker' = [worker EXCEPT !.pc = IF jobs[worker.job].audio THEN "playing" ELSE "waiting"]
  /\ UNCHANGED <<board, last, producer, jobs, tester, lock, cooling>>

\* route_speak: what cools down is read once, under the lock.
WorkerLocks ==
  /\ worker.pc = "waiting" /\ lock = "free" /\ lock' = "worker"
  /\ worker' = [worker EXCEPT !.pc = "routing", !.passed = cooling]
  /\ UNCHANGED <<board, last, producer, jobs, tester, cooling>>

Left == {i \in DOMAIN Order : Order[i] \notin worker.passed}
Chosen == Order[CHOOSE i \in Left : \A k \in Left : i <= k]

\* The next provider of the order speaks.
TryProvider ==
  /\ worker.pc = "routing" /\ Left # {} /\ worker' = [worker EXCEPT !.pc = "playing"]
  /\ UNCHANGED <<board, last, producer, jobs, tester, lock, cooling>>

\* A provider fails, before or after it was heard: it cools down, the next one has its turn.
ProviderFails ==
  /\ worker.pc = "playing" /\ lock = "worker"
  /\ worker' = [worker EXCEPT !.pc = "routing", !.passed = @ \cup {Chosen}]
  /\ cooling' = IF Chosen = LocalVoice THEN cooling ELSE cooling \cup {Chosen}
  /\ UNCHANGED <<board, last, producer, jobs, tester, lock>>

\* The execution is over: the lock is let go, and with radio_fx a closing cue is played.
Executed(outcome) ==
  /\ \/ worker.pc = "playing" /\ (lock = "worker" => outcome = "DONE")
     \/ worker.pc = "routing" /\ Left = {} /\ outcome = "FAILED"
     \/ worker.pc = "cue" /\ outcome = "FAILED"
  /\ lock' = IF lock = "worker" THEN "free" ELSE lock
  /\ cooling' = IF worker.pc = "playing" /\ lock = "worker" THEN cooling \ {Chosen} ELSE cooling
  /\ worker' = [worker EXCEPT !.pc = IF worker.fx /\ worker.pc # "cue" THEN "closing" ELSE "ended",
                              !.passed = {}, !.outcome = outcome]
  /\ UNCHANGED <<board, last, producer, jobs, tester>>

\* The job takes the outcome of its execution; a closing cue that hangs fails it.
EndJob(outcome) ==
  /\ worker.pc \in {"closing", "ended"}
  /\ outcome = worker.outcome \/ (outcome = "FAILED" /\ worker.pc = "closing")
  /\ jobs' = [jobs EXCEPT ![worker.job].status = outcome] /\ worker' = Resting
  /\ UNCHANGED <<board, last, producer, tester, lock, cooling>>

----------------------------------------------------------------------------
\* What cools down when a route fails before its n-th provider.
FailingBefore(n) == {Order[i] : i \in 1 .. n - 1} \ {LocalVoice}

\* test-provider and test-neural speak in the thread of their request, under the lock: the
\* one with a provider of its choice, the other by the route.  What cools down is read
\* under the lock only, so the failures of a route are marked when it begins.
TestSpeaks ==
  /\ \/ tester = "idle" /\ tester' = "waiting" /\ UNCHANGED <<lock, cooling>>
     \/ /\ tester = "waiting" /\ lock = "free" /\ lock' = "tester" /\ tester' = "playing"
        /\ \E n \in 1 .. Len(Order) + 1 : cooling' = cooling \cup FailingBefore(n)
     \/ /\ tester = "playing" /\ lock' = "free" /\ tester' = "idle"
        /\ \E i \in DOMAIN Order : cooling' \in {cooling, cooling \ {Order[i]}}
  /\ UNCHANGED <<board, last, producer, jobs, worker>>

CoolsDown(p) ==
  /\ p \in cooling /\ cooling' = cooling \ {p}
  /\ UNCHANGED <<board, last, producer, jobs, worker, tester, lock>>

VoiceNext ==
  \/ \E b \in Statuses : SetStatus(b) \/ Checkpoint(b)
  \/ Poll \/ AskBusy
  \/ \E p \in Producer : Enqueue(p) \/ Refused(p) \/ Answered(p) \/ Fails(p)
  \/ \E fx \in BOOLEAN : TakeJob(fx)
  \/ ExecuteJob \/ WorkerLocks \/ TryProvider \/ ProviderFails
  \/ \E o \in {"DONE", "FAILED"} : Executed(o) \/ EndJob(o)
  \/ TestSpeaks
  \/ \E p \in cooling : CoolsDown(p)

VoiceSpec == VoiceInit /\ [][VoiceNext]_voiceVars

----------------------------------------------------------------------------
\* The last-spoken file only ever names an announcement of which a job was
\* played to its end, whatever was refused, timed out or replaced by its
\* fallback on the way: an announcement nobody heard is said again
\* (reporter.py speak, _job_done and save_last).
ReceiptMeansHeard ==
  last # Silence => \E j \in DOMAIN jobs : jobs[j].of = last /\ jobs[j].status = "DONE"
=============================================================================
