----------------------------- MODULE LeaderHandover -----------------------------
(****************************************************************************)
(* Replicas of the exporter that elect a leader: how main.go:158-215 hands  *)
(* the watching over from one process to the next, with the durations of    *)
(* pkg/kube/leaderelection.go and the age limit of pkg/kube/watcher.go.     *)
(*                                                                          *)
(* The elector is client-go's and modelled from how the code uses it.  A    *)
(* replica that waits looks at the Lease object every RetryPeriod and some  *)
(* jitter, remembers when it last saw it change, and takes it once it has   *)
(* not changed for LeaseDuration.  A leader writes it every RetryPeriod and *)
(* gives up when no write has succeeded for RenewDeadline.  Nobody gives a  *)
(* lease back: the code does not set ReleaseOnCancel.                       *)
(*                                                                          *)
(* Timers run down and ages run up together in Tick, which waits for        *)
(* whatever is due.  Any request may fail, or only its reply be lost; it    *)
(* takes no time, and neither does the listing of a new watcher.            *)
(****************************************************************************)
EXTENDS Integers

CONSTANTS
    Replica,
    Nobody,             \* there is no Lease object yet
    Former,             \* the Lease is of a process that has been replaced
    LeaseDuration,
    RenewDeadline,
    RetryPeriod,
    RetryMax,           \* RetryPeriod with the jitter of those who wait
    MaxEventAge,        \* e.maxEventAgeSeconds
    MaxGap              \* bound: how far unwatched and overlap count

ASSUME DurationAssumption ==
    /\ LeaseDuration \in Nat /\ RenewDeadline \in Nat /\ RetryPeriod \in Nat
    /\ RetryMax \in Nat /\ MaxEventAge \in Nat /\ MaxGap \in Nat
    /\ 0 < RetryPeriod /\ RetryPeriod <= RetryMax
    /\ RetryPeriod + RenewDeadline < LeaseDuration
ASSUME HolderAssumption ==
    Nobody \notin Replica /\ Former \notin Replica /\ Nobody # Former

VARIABLES
    phase,      \* where the main of each replica is
    wake,       \* the time until it does what it waits for
    holder,     \* the holder identity in the Lease
    unseen,     \* the replicas that have not seen its latest change
    age,        \* how long ago a waiting replica has seen it change
    failing,    \* for how long the leader has been failing to write it
    event,      \* what has become of an event of the cluster
    eventAge,
    unwatched,  \* history: for how long no replica has been watching
    overlap,    \* history: for how long several have
    excused     \* history: a process went that could not hand over

leaseVars == <<holder, unseen, age, failing>>
historyVars == <<event, eventAge, unwatched, overlap, excused>>
vars == <<phase, wake, leaseVars, historyVars>>

\* In "won" the lease is acquired and the goroutine of OnStartedLeading has yet
\* to set wasLeader and to start the watcher; in "leaving" main sleeps.
Phase == {"down", "acquiring", "won", "leading", "leaving"}

Leads(r) == phase[r] \in {"won", "leading"}
Watches(r) == phase[r] \in {"leading", "leaving"}
Watched == \E r \in Replica : Watches(r)

NotFailing == -1
NeverWatched == -1

TypeOK ==
    /\ phase \in [Replica -> Phase]
    /\ wake \in [Replica -> 0 .. LeaseDuration + RetryMax]
    /\ holder \in Replica \cup {Nobody, Former}
    /\ unseen \subseteq Replica
    /\ age \in [Replica -> 0 .. LeaseDuration]
    /\ failing \in [Replica -> NotFailing .. RenewDeadline]
    /\ event \in {"none", "pending", "handled", "lost"}
    /\ eventAge \in 0 .. MaxEventAge
    /\ unwatched \in NeverWatched .. MaxGap
    /\ overlap \in 0 .. MaxGap
    /\ excused \in BOOLEAN

Init ==
    /\ phase = [r \in Replica |-> "down"]
    /\ wake = [r \in Replica |-> 0]
    /\ holder = Nobody
    /\ unseen = Replica
    /\ age = [r \in Replica |-> 0]
    /\ failing = [r \in Replica |-> NotFailing]
    /\ event = "none"
    /\ eventAge = 0
    /\ unwatched = NeverWatched
    /\ overlap = 0
    /\ excused = FALSE

-----------------------------------------------------------------------------
(* The elector: newResourceLock, NewLeaderElector and Run.                  *)

\* A replica starts, with an identity of its own, as the name of its host may
\* be that of its predecessor.
Start(r) ==
    /\ phase[r] = "down"
    /\ wake[r] = 0
    /\ phase' = [phase EXCEPT ![r] = "acquiring"]
    /\ holder' = IF holder = r THEN Former ELSE holder
    /\ unseen' = unseen \cup {r}
    /\ UNCHANGED <<wake, age, failing, historyVars>>

\* Fault: a change of the Lease does not count as a sign of life.
AgeOfFirstSight(r) == age[r]

\* How long the Lease has not changed, as this look at it shows.
AgeSeen(r) == IF r \in unseen THEN 0 ELSE age[r]

\* Does the Lease keep r from taking it?  Its own, which it has without knowing
\* when the reply was lost, does not.
LeaseValid(r) == holder \notin {Nobody, r} /\ AgeSeen(r) < LeaseDuration

\* While a leader watches, those that wait may be late.
LeaderWatches == \E s \in Replica : phase[s] = "leading"

\* A look that fails shows nothing.
LookFails(r) ==
    /\ phase[r] = "acquiring"
    /\ wake[r] = 0
    /\ \E retry \in RetryPeriod .. RetryMax : wake' = [wake EXCEPT ![r] = retry]
    /\ excused' = (excused \/ ~LeaderWatches)
    /\ UNCHANGED <<phase, leaseVars, event, eventAge, unwatched, overlap>>

LookAndWait(r) ==
    /\ phase[r] = "acquiring"
    /\ wake[r] = 0
    /\ LeaseValid(r)
    /\ age' = [age EXCEPT ![r] = AgeSeen(r)]
    /\ unseen' = unseen \ {r}
    /\ \E retry \in RetryPeriod .. RetryMax : wake' = [wake EXCEPT ![r] = retry]
    /\ UNCHANGED <<phase, holder, failing, historyVars>>

\* The lease is acquired, and the callback's goroutine is spawned.
Acquire(r) ==
    /\ phase[r] = "acquiring"
    /\ wake[r] = 0
    /\ ~LeaseValid(r)
    /\ phase' = [phase EXCEPT ![r] = "won"]
    /\ wake' = [wake EXCEPT ![r] = RetryPeriod]
    /\ holder' = r
    /\ unseen' = Replica \ {r}
    /\ age' = [age EXCEPT ![r] = 0]
    /\ UNCHANGED <<failing, historyVars>>

AcquireReplyLost(r) ==
    /\ phase[r] = "acquiring"
    /\ wake[r] = 0
    /\ ~LeaseValid(r)
    /\ holder' = r
    /\ unseen' = Replica
    /\ \E retry \in RetryPeriod .. RetryMax : wake' = [wake EXCEPT ![r] = retry]
    /\ excused' = TRUE
    /\ UNCHANGED <<phase, age, failing, event, eventAge, unwatched, overlap>>

RenewSucceeds(r) ==
    /\ phase[r] = "leading"
    /\ wake[r] = 0
    /\ failing[r] < RenewDeadline
    /\ holder = r
    /\ wake' = [wake EXCEPT ![r] = RetryPeriod]
    /\ unseen' = Replica \ {r}
    /\ failing' = [failing EXCEPT ![r] = NotFailing]
    /\ UNCHANGED <<phase, holder, age, historyVars>>

\* The request is lost, or only its reply is.
RenewFails(r) ==
    /\ phase[r] = "leading"
    /\ wake[r] = 0
    /\ failing[r] < RenewDeadline
    /\ wake' = [wake EXCEPT ![r] = RetryPeriod]
    /\ failing' = [failing EXCEPT ![r] = IF @ = NotFailing THEN 0 ELSE @]
    /\ unseen' \in {unseen, IF holder = r THEN Replica \ {r} ELSE unseen}
    /\ UNCHANGED <<phase, holder, age, historyVars>>

-----------------------------------------------------------------------------
(* main.go                                                                  *)

\* Fault: the watcher of a new leader skips what the cluster lists.
CallbackRunsWithoutList(r) ==
    /\ phase[r] = "won"
    /\ phase' = [phase EXCEPT ![r] = "leading"]
    /\ excused' = FALSE
    /\ unwatched' = 0
    /\ UNCHANGED <<wake, leaseVars, event, eventAge, overlap>>

\* OnStartedLeading sets wasLeader and starts the watcher, which is given all
\* the events there are and hands on those that are not too old.
CallbackRuns(r) ==
    /\ phase[r] = "won"
    /\ phase' = [phase EXCEPT ![r] = "leading"]
    /\ event' = IF event = "pending" THEN "handled" ELSE event
    /\ eventAge' = 0
    /\ excused' = FALSE
    /\ unwatched' = 0
    /\ UNCHANGED <<wake, leaseVars, overlap>>

\* Can another replica take over from one that leads, when one that waits goes?
StandbyFor(r) == \E s \in Replica \ {r} : phase[s] = "acquiring"
LeaderBeside(r) == \E s \in Replica \ {r} : Leads(s)

Stops(r) ==
    /\ phase' = [phase EXCEPT ![r] = "down"]
    /\ wake' = [wake EXCEPT ![r] = 1]
    /\ age' = [age EXCEPT ![r] = 0]
    /\ failing' = [failing EXCEPT ![r] = NotFailing]
    /\ UNCHANGED <<holder, unseen>>

\* Run has returned and wasLeader is false: main stops at once.
LeaveUnled(r) ==
    /\ phase[r] \in {"acquiring", "won"}
    /\ Stops(r)
    /\ excused' = (excused \/ phase[r] = "won" \/ ~LeaderBeside(r))
    /\ UNCHANGED <<event, eventAge, unwatched, overlap>>

\* Fault: the wait also covers the time the leader took to notice.
WaitWithDeadline == LeaseDuration + RenewDeadline

\* Fault: the wait is that of the renewals.
WaitRenewDeadline == RenewDeadline

Wait == LeaseDuration

\* Run has returned, because of a signal or a lost lease, and wasLeader is true:
\* the watcher runs on while main sleeps for GetLeaseDuration.
LeaveLed(r) ==
    /\ phase[r] = "leading"
    /\ phase' = [phase EXCEPT ![r] = "leaving"]
    /\ wake' = [wake EXCEPT ![r] = Wait]
    /\ failing' = [failing EXCEPT ![r] = NotFailing]
    /\ excused' = (excused \/ ~StandbyFor(r))
    /\ UNCHANGED <<holder, unseen, age, event, eventAge, unwatched, overlap>>

\* SIGINT or SIGTERM; in the sleep nobody listens.
Signal(r) == LeaveUnled(r) \/ LeaveLed(r)

LoseLease(r) ==
    /\ failing[r] = RenewDeadline
    /\ LeaveLed(r)

SleepOver(r) ==
    /\ phase[r] = "leaving"
    /\ wake[r] = 0
    /\ Stops(r)
    /\ UNCHANGED historyVars

\* The process is killed.
Kill(r) ==
    /\ phase[r] # "down"
    /\ Stops(r)
    /\ excused' = (excused \/ phase[r] # "acquiring" \/ ~LeaderBeside(r))
    /\ UNCHANGED <<event, eventAge, unwatched, overlap>>

-----------------------------------------------------------------------------
(* The cluster and the clock                                                *)

\* An event, once there has been a leader.
Occur ==
    /\ event = "none"
    /\ unwatched # NeverWatched
    /\ event' = IF Watched THEN "handled" ELSE "pending"
    /\ eventAge' = 0
    /\ UNCHANGED <<phase, wake, leaseVars, unwatched, overlap, excused>>

Due(r) ==
    \/ phase[r] = "won"
    \/ phase[r] \in {"acquiring", "leading", "leaving"} /\ wake[r] = 0
    \/ phase[r] = "leading" /\ failing[r] = RenewDeadline

Less(n) == IF n = 0 THEN 0 ELSE n - 1
More(n, most) == IF n >= most THEN most ELSE n + 1

\* An event that gets too old is discarded by whoever sees it, isEventDiscarded.
GrowOld ==
    CASE event = "pending" /\ eventAge < MaxEventAge ->
            event' = event /\ eventAge' = eventAge + 1
      [] event = "pending" /\ eventAge >= MaxEventAge ->
            event' = (IF excused THEN "none" ELSE "lost") /\ eventAge' = 0
      [] OTHER -> UNCHANGED <<event, eventAge>>

Tick ==
    /\ \A r \in Replica : ~Due(r)
    /\ wake' = [r \in Replica |-> Less(wake[r])]
    /\ age' = [r \in Replica |->
                IF phase[r] = "acquiring" THEN More(age[r], LeaseDuration) ELSE age[r]]
    /\ failing' = [r \in Replica |->
                IF phase[r] = "leading" /\ failing[r] # NotFailing
                THEN failing[r] + 1 ELSE failing[r]]
    /\ GrowOld
    /\ unwatched' = IF Watched \/ unwatched = NeverWatched
                    THEN unwatched ELSE More(unwatched, MaxGap)
    /\ overlap' = IF \E r, s \in Replica : r # s /\ Watches(r) /\ Watches(s)
                  THEN More(overlap, MaxGap) ELSE 0
    /\ UNCHANGED <<phase, holder, unseen, excused>>

-----------------------------------------------------------------------------
Next ==
    \/ \E r \in Replica :
        \/ Start(r)
        \/ LookFails(r) \/ LookAndWait(r)
        \/ Acquire(r) \/ AcquireReplyLost(r)
        \/ RenewSucceeds(r) \/ RenewFails(r)
        \/ CallbackRuns(r)
        \/ Signal(r) \/ LoseLease(r)
        \/ SleepOver(r)
        \/ Kill(r)
    \/ Occur
    \/ Tick

Spec == Init /\ [][Next]_vars

-----------------------------------------------------------------------------
(* Properties.                                                              *)

\* Whatever is killed, restarted or cut off from the API server: no two
\* replicas believe to be the leader at a time (leaderelection.go:26-28).
OneLeader == \A r, s \in Replica : Leads(r) /\ Leads(s) => r = s

\* When a leader leaves in order and another replica waits, nobody watches for
\* at most two retries: one until the other has seen the last renewal, which it
\* may see late, and one until it looks again after the lease has run out
\* (main.go:198-206, leaderelection.go:28).
GapBounded == ~excused => unwatched <= 2 * RetryMax

\* The wait of a leader that has lost its lease makes two processes send the
\* same events for no longer than the leader may take to notice the loss.
OverlapBounded == overlap <= RetryPeriod + RenewDeadline

\* "we wait leaseDuration seconds before stopping so that we don't lose events
\* until the next leader is elected" (main.go:200-202).
NoEventLost == event # "lost"

=============================================================================
