------------------------ MODULE LeaderHandoverProofs ------------------------
(****************************************************************************)
(* Theorems about LeaderHandover, for any number of replicas and all        *)
(* durations in which a lease outlasts the renew deadline and a retry.      *)
(****************************************************************************)
EXTENDS LeaderHandover, TLAPS

\* How long after its last renewal a leader has noticed at the latest that it
\* can no longer renew.
NoticeTime == RetryPeriod + RenewDeadline

-----------------------------------------------------------------------------
(* The inductive invariant *)

TimerInv ==
    \A r \in Replica :
        /\ phase[r] # "leading" => failing[r] = NotFailing
        /\ phase[r] # "acquiring" => age[r] = 0
        /\ phase[r] = "won" => wake[r] = RetryPeriod
        /\ phase[r] = "leading" => wake[r] <= RetryPeriod
        /\ phase[r] = "leaving" => wake[r] <= LeaseDuration

HolderInv == \A r \in Replica : Leads(r) => holder = r

\* How long ago the leader has written the Lease, by its own timers.
SinceRenewal(r) ==
    IF failing[r] = NotFailing THEN RetryPeriod - wake[r] ELSE RetryPeriod + failing[r]

\* Nobody has seen the last renewal before it was made.
AgeInv ==
    \A r, s \in Replica :
        Leads(r) /\ s # r /\ s \notin unseen => age[s] <= SinceRenewal(r)

LeadInv == TimerInv /\ HolderInv /\ AgeInv

\* A replica whose watcher runs, or is about to.
Active(r) == Leads(r) \/ phase[r] = "leaving"

NobodyInv == holder = Nobody => \A r \in Replica : ~Active(r)

\* Who has seen the last renewal of one that leaves has not seen it for much
\* longer than that one is leaving.
LeavingInv ==
    \A r, s \in Replica :
        phase[r] = "leaving" /\ s \notin unseen =>
            age[s] + wake[r] <= LeaseDuration + NoticeTime

\* It will not have watched beside another for too long when it stops.
SoonGone(r) == phase[r] = "leaving" /\ overlap + wake[r] <= NoticeTime

PairInv ==
    \A r, s \in Replica : r # s /\ Active(r) /\ Active(s) => SoonGone(r) \/ SoonGone(s)

Several == \E r, s \in Replica : r # s /\ Active(r) /\ Active(s)

\* While several watch the Lease is fresh, so that there is never a third.
FreshInv ==
    overlap > 0 \/ Several => \A s \in Replica \ unseen : age[s] <= overlap

\* Who holds the lease without knowing can acquire it at any time.
OwnedInv ==
    \A r, s \in Replica :
        phase[s] = "acquiring" /\ holder = s /\ Active(r) => SoonGone(r)

OverlapInv ==
    /\ NobodyInv /\ LeavingInv /\ PairInv /\ FreshInv /\ OwnedInv
    /\ OverlapBounded

\* The longest time until s acquires the Lease, if it stays as it is and all
\* looks at it succeed: the first look may see the last change late, and the
\* last one before the lease has run out is followed by another retry.
Remaining(s) ==
    IF s \in unseen THEN wake[s] + LeaseDuration - 1 + RetryMax
    ELSE IF age[s] < LeaseDuration THEN LeaseDuration - 1 + RetryMax - age[s]
    ELSE wake[s]

\* What is left of the wait of a replica that leaves covers all but two retries
\* of the time until s takes over.
CoveredBy(r, s) ==
    /\ phase[r] = "leaving"
    /\ Remaining(s) <= wake[r] + 2 * RetryMax - 1

\* Nobody watches, and s takes over before two retries have gone by, as seen by
\* the gap and by an event that waits.
TakesOverSoon(s) ==
    /\ Remaining(s) + unwatched <= 2 * RetryMax - 1
    /\ event = "pending" => Remaining(s) + eventAge <= 2 * RetryMax - 1

RetryInv == \A r \in Replica : phase[r] = "acquiring" => wake[r] <= RetryMax

WatchedInv ==
    /\ Watched => unwatched = 0 /\ event # "pending"
    /\ unwatched = NeverWatched => event = "none"

\* While no excuse holds, somebody leads or somebody waits to.
StandbyInv ==
    ~excused /\ unwatched # NeverWatched =>
        \/ \E r \in Replica : Leads(r)
        \/ \E s \in Replica :
            /\ phase[s] = "acquiring"
            /\ TakesOverSoon(s) \/ \E r \in Replica : CoveredBy(r, s)

GapInv ==
    /\ RetryInv /\ WatchedInv /\ StandbyInv
    /\ GapBounded
    /\ 2 * RetryMax <= MaxEventAge => NoEventLost

\* The history of the overlap counts no further than MaxGap.
IInv ==
    /\ TypeOK
    /\ LeadInv
    /\ GapInv
    /\ NoticeTime <= MaxGap => OverlapInv

-----------------------------------------------------------------------------
LEMMA InitIInv == Init => IInv
  <1> SUFFICES ASSUME Init PROVE IInv
    OBVIOUS
  <1> USE DurationAssumption, HolderAssumption DEF Init
  <1>1. TypeOK
    <2>1. excused \in BOOLEAN
      BY Zenon
    <2>2. QED
      BY <2>1 DEF TypeOK, Phase, NotFailing, NeverWatched
  <1>2. LeadInv
    BY DEF LeadInv, TimerInv, HolderInv, AgeInv, Leads
  <1>3. OverlapInv
    BY DEF OverlapInv, NobodyInv, LeavingInv, PairInv, FreshInv, Several, OwnedInv,
           Active, Leads, OverlapBounded
  <1>4. GapInv
    BY DEF GapInv, RetryInv, WatchedInv, StandbyInv, GapBounded, NoEventLost,
           Watched, Watches, NeverWatched
  <1>5. QED
    BY <1>1, <1>2, <1>3, <1>4 DEF IInv

-----------------------------------------------------------------------------
(* Types *)

LEMMA NextTypeOK == TypeOK /\ [Next]_vars => TypeOK'
  <1> SUFFICES ASSUME TypeOK, [Next]_vars PROVE TypeOK'
    OBVIOUS
  <1> USE DurationAssumption, HolderAssumption
      DEF TypeOK, Phase, NotFailing, NeverWatched, leaseVars, historyVars
  <1>1. ASSUME NEW r \in Replica, Start(r) PROVE TypeOK'
    BY <1>1 DEF Start
  <1>2. ASSUME NEW r \in Replica, LookFails(r) PROVE TypeOK'
    BY <1>2 DEF LookFails
  <1>3. ASSUME NEW r \in Replica, LookAndWait(r) PROVE TypeOK'
    BY <1>3 DEF LookAndWait, AgeSeen
  <1>4. ASSUME NEW r \in Replica, Acquire(r) PROVE TypeOK'
    BY <1>4 DEF Acquire
  <1>5. ASSUME NEW r \in Replica, AcquireReplyLost(r) PROVE TypeOK'
    BY <1>5 DEF AcquireReplyLost
  <1>6. ASSUME NEW r \in Replica, RenewSucceeds(r) PROVE TypeOK'
    BY <1>6 DEF RenewSucceeds
  <1>7. ASSUME NEW r \in Replica, RenewFails(r) PROVE TypeOK'
    BY <1>7 DEF RenewFails
  <1>8. ASSUME NEW r \in Replica, CallbackRuns(r) PROVE TypeOK'
    <2>1. excused' \in BOOLEAN
      BY <1>8, Zenon DEF CallbackRuns
    <2>2. QED
      BY <1>8, <2>1 DEF CallbackRuns
  <1>9. ASSUME NEW r \in Replica, LeaveUnled(r) PROVE TypeOK'
    BY <1>9 DEF LeaveUnled, Stops
  <1>10. ASSUME NEW r \in Replica, LeaveLed(r) PROVE TypeOK'
    BY <1>10 DEF LeaveLed, Wait
  <1>11. ASSUME NEW r \in Replica, SleepOver(r) PROVE TypeOK'
    BY <1>11 DEF SleepOver, Stops
  <1>12. ASSUME NEW r \in Replica, Kill(r) PROVE TypeOK'
    BY <1>12 DEF Kill, Stops
  <1>13. CASE Occur
    BY <1>13 DEF Occur
  <1>14. CASE Tick
    <2>1. wake' \in [Replica -> 0 .. LeaseDuration + RetryMax]
      BY <1>14 DEF Tick, Less
    <2>2. age' \in [Replica -> 0 .. LeaseDuration]
      BY <1>14 DEF Tick, More
    <2>3. failing' \in [Replica -> NotFailing .. RenewDeadline]
      BY <1>14 DEF Tick, Due
    <2>4. event' \in {"none", "pending", "handled", "lost"} /\ eventAge' \in 0 .. MaxEventAge
      BY <1>14 DEF Tick, GrowOld
    <2>5. unwatched' \in NeverWatched .. MaxGap /\ overlap' \in 0 .. MaxGap
      BY <1>14 DEF Tick, More
    <2>6. QED
      BY <1>14, <2>1, <2>2, <2>3, <2>4, <2>5 DEF Tick
  <1>15. CASE UNCHANGED vars
    BY <1>15 DEF vars
  <1>16. QED
    BY <1>1, <1>2, <1>3, <1>4, <1>5, <1>6, <1>7, <1>8, <1>9, <1>10, <1>11, <1>12,
       <1>13, <1>14, <1>15 DEF Next, Signal, LoseLease

-----------------------------------------------------------------------------
(* One leader *)

\* What the elector's clock says of a leader is less than a lease.
LEMMA RenewedInTime ==
  ASSUME TypeOK, LeadInv, NEW r \in Replica, Leads(r)
  PROVE  /\ SinceRenewal(r) \in 0 .. NoticeTime
         /\ SinceRenewal(r) < LeaseDuration
  BY DurationAssumption
     DEF TypeOK, LeadInv, TimerInv, Leads, SinceRenewal, NoticeTime, NotFailing

\* Nobody can take the lease of a leader.
LEMMA LeaseKept ==
  ASSUME TypeOK, LeadInv, NEW r \in Replica, Leads(r),
         NEW s \in Replica, phase[s] = "acquiring"
  PROVE  LeaseValid(s)
  <1>1. s # r
    BY DEF Leads
  <1>2. holder = r /\ holder # Nobody
    BY HolderAssumption DEF LeadInv, HolderInv
  <1>3. CASE s \in unseen
    BY <1>1, <1>2, <1>3, DurationAssumption DEF LeaseValid, AgeSeen
  <1>4. CASE s \notin unseen
    <2>1. age[s] <= SinceRenewal(r)
      BY <1>1, <1>4 DEF LeadInv, AgeInv
    <2>2. age[s] < LeaseDuration
      BY <2>1, RenewedInTime, DurationAssumption DEF TypeOK, NoticeTime
    <2>3. QED
      BY <1>1, <1>2, <1>4, <2>2 DEF LeaseValid, AgeSeen
  <1>5. QED
    BY <1>3, <1>4

LEMMA NextLeadInv == TypeOK /\ LeadInv /\ [Next]_vars => LeadInv'
  <1> SUFFICES ASSUME TypeOK, LeadInv, [Next]_vars PROVE LeadInv'
    OBVIOUS
  <1> USE DurationAssumption, HolderAssumption
      DEF TypeOK, Phase, NotFailing, leaseVars, historyVars,
          LeadInv, TimerInv, HolderInv, AgeInv, Leads, SinceRenewal
  <1>1. ASSUME NEW r \in Replica, Start(r) PROVE LeadInv'
    BY <1>1 DEF Start
  <1>2. ASSUME NEW r \in Replica, LookFails(r) PROVE LeadInv'
    BY <1>2 DEF LookFails
  <1>3. ASSUME NEW r \in Replica, LookAndWait(r) PROVE LeadInv'
    <2>1. TimerInv' /\ HolderInv'
      BY <1>3 DEF LookAndWait, AgeSeen
    <2>2. ASSUME NEW q \in Replica, NEW s \in Replica,
                 Leads(q)', s # q, s \notin unseen'
          PROVE  (age[s] <= SinceRenewal(q))'
      <3>1. 0 <= SinceRenewal(q) /\ SinceRenewal(q)' = SinceRenewal(q) /\ q # r
        BY <1>3, <2>2, RenewedInTime DEF LookAndWait
      <3>2. QED
        BY <1>3, <2>2, <3>1 DEF LookAndWait, AgeSeen
    <2>3. QED
      BY <2>1, <2>2
  <1>4. ASSUME NEW r \in Replica, Acquire(r) PROVE LeadInv'
    <2>1. \A s \in Replica : ~Leads(s)
      BY <1>4, LeaseKept DEF Acquire
    <2>2. QED
      BY <1>4, <2>1 DEF Acquire
  <1>5. ASSUME NEW r \in Replica, AcquireReplyLost(r) PROVE LeadInv'
    <2>1. \A s \in Replica : ~Leads(s)
      BY <1>5, LeaseKept DEF AcquireReplyLost
    <2>2. QED
      BY <1>5, <2>1 DEF AcquireReplyLost
  <1>6. ASSUME NEW r \in Replica, RenewSucceeds(r) PROVE LeadInv'
    BY <1>6 DEF RenewSucceeds
  <1>7. ASSUME NEW r \in Replica, RenewFails(r) PROVE LeadInv'
    BY <1>7 DEF RenewFails
  <1>8. ASSUME NEW r \in Replica, CallbackRuns(r) PROVE LeadInv'
    BY <1>8 DEF CallbackRuns
  <1>9. ASSUME NEW r \in Replica, LeaveUnled(r) PROVE LeadInv'
    BY <1>9 DEF LeaveUnled, Stops
  <1>10. ASSUME NEW r \in Replica, LeaveLed(r) PROVE LeadInv'
    BY <1>10 DEF LeaveLed, Wait
  <1>11. ASSUME NEW r \in Replica, SleepOver(r) PROVE LeadInv'
    BY <1>11 DEF SleepOver, Stops
  <1>12. ASSUME NEW r \in Replica, Kill(r) PROVE LeadInv'
    BY <1>12 DEF Kill, Stops
  <1>13. CASE Occur
    BY <1>13 DEF Occur
  <1>14. CASE Tick
    <2>1. TimerInv' /\ HolderInv'
      BY <1>14 DEF Tick, Due, Less
    <2>2. AgeInv'
      BY <1>14 DEF Tick, Due, Less, More
    <2>3. QED
      BY <2>1, <2>2
  <1>15. CASE UNCHANGED vars
    BY <1>15 DEF vars
  <1>16. QED
    BY <1>1, <1>2, <1>3, <1>4, <1>5, <1>6, <1>7, <1>8, <1>9, <1>10, <1>11, <1>12,
       <1>13, <1>14, <1>15 DEF Next, Signal, LoseLease

-----------------------------------------------------------------------------
(* One that leaves and one that leads                                       *)

\* When the lease can be taken, nobody but one that will soon be gone watches.
LEMMA TakenLate ==
  ASSUME TypeOK, LeadInv, OverlapInv, NoticeTime <= MaxGap,
         NEW s \in Replica, phase[s] = "acquiring", ~LeaseValid(s),
         NEW r \in Replica, Active(r)
  PROVE  SoonGone(r)
  <1> USE DurationAssumption DEF TypeOK
  <1>1. phase[r] = "leaving"
    BY LeaseKept DEF Active
  <1>2. CASE holder = Nobody
    BY <1>2 DEF OverlapInv, NobodyInv
  <1>3. CASE holder = s
    BY <1>3 DEF OverlapInv, OwnedInv
  <1>4. CASE holder \notin {Nobody, s}
    <2>1. s \notin unseen /\ age[s] >= LeaseDuration
      BY <1>4 DEF LeaseValid, AgeSeen
    <2>2. age[s] + wake[r] <= LeaseDuration + NoticeTime
      BY <1>1, <2>1 DEF OverlapInv, LeavingInv
    <2>3. overlap <= NoticeTime
      BY DEF OverlapInv, OverlapBounded, NoticeTime
    <2>4. overlap = 0
      BY <2>1, <2>3 DEF OverlapInv, FreshInv, NoticeTime
    <2>5. QED
      BY <1>1, <2>1, <2>2, <2>4 DEF SoonGone, NoticeTime
  <1>5. QED
    BY <1>2, <1>3, <1>4

\* A step by which no replica becomes active or leaves, no Lease is taken and the
\* overlap stays.
LEMMA QuietOverlapInv ==
  ASSUME TypeOK, TypeOK', OverlapInv, overlap' = overlap,
         \A r \in Replica : Active(r)' =>
             Active(r) /\ (phase'[r] = "leaving" <=> phase[r] = "leaving"),
         \A r \in Replica : phase'[r] = "leaving" =>
             wake'[r] = wake[r] /\ wake[r] <= LeaseDuration,
         \A s \in Replica \ unseen' : age'[s] = 0 \/ (s \notin unseen /\ age'[s] = age[s]),
         holder' \in {holder, Former},
         \A s \in Replica : phase'[s] = "acquiring" /\ holder' = s =>
             phase[s] = "acquiring"
  PROVE  OverlapInv'
  <1> USE DurationAssumption, HolderAssumption DEF TypeOK, OverlapInv, NoticeTime
  <1>1. NobodyInv'
    BY DEF NobodyInv
  <1>2. LeavingInv'
    BY DEF LeavingInv, Active, Leads
  <1>3. PairInv'
    BY DEF PairInv, SoonGone
  <1>4. FreshInv'
    BY DEF FreshInv, Several
  <1>5. OwnedInv'
    BY DEF OwnedInv, SoonGone
  <1>6. OverlapBounded'
    BY DEF OverlapBounded
  <1>7. QED
    BY <1>1, <1>2, <1>3, <1>4, <1>5, <1>6

LEMMA NextOverlapInv ==
  ASSUME TypeOK, TypeOK', LeadInv, OverlapInv, NoticeTime <= MaxGap, [Next]_vars
  PROVE  OverlapInv'
  <1> USE DurationAssumption, HolderAssumption
      DEF TypeOK, Phase, leaseVars, historyVars, Leads
  <1>a. TimerInv
    BY DEF LeadInv
  <1>1. ASSUME NEW r \in Replica, Start(r) PROVE OverlapInv'
    BY <1>1, <1>a, QuietOverlapInv DEF Start, Active, TimerInv
  <1>2. ASSUME NEW r \in Replica, LookFails(r) PROVE OverlapInv'
    BY <1>2, <1>a, QuietOverlapInv DEF LookFails, Active, TimerInv
  <1>3. ASSUME NEW r \in Replica, LookAndWait(r) PROVE OverlapInv'
    <2>1. \A s \in Replica \ unseen' : age'[s] = 0 \/ (s \notin unseen /\ age'[s] = age[s])
      BY <1>3 DEF LookAndWait, AgeSeen
    <2>2. \A q \in Replica : phase'[q] = "leaving" => wake'[q] = wake[q]
      BY <1>3 DEF LookAndWait
    <2>3. QED
      BY <1>3, <1>a, <2>1, <2>2, QuietOverlapInv DEF LookAndWait, Active, TimerInv
  <1>4. ASSUME NEW r \in Replica, Acquire(r) PROVE OverlapInv'
    <2>1. \A q \in Replica : Active(q) => SoonGone(q)
      BY <1>4, TakenLate DEF Acquire
    <2>2. \A q \in Replica : Active(q)' => q = r \/ Active(q)
      BY <1>4 DEF Acquire, Active
    <2>3. \A q \in Replica : SoonGone(q) => SoonGone(q)'
      BY <1>4 DEF Acquire, SoonGone
    <2>4. NobodyInv'
      BY <1>4 DEF Acquire, NobodyInv
    <2>5. LeavingInv'
      BY <1>4, <1>a DEF Acquire, LeavingInv, TimerInv, NoticeTime
    <2>6. PairInv'
      BY <2>1, <2>2, <2>3 DEF PairInv
    <2>7. FreshInv'
      BY <1>4 DEF Acquire, FreshInv
    <2>8. OwnedInv'
      BY <1>4 DEF Acquire, OwnedInv
    <2>9. OverlapBounded'
      BY <1>4 DEF Acquire, OverlapInv, OverlapBounded
    <2>10. QED
      BY <2>4, <2>5, <2>6, <2>7, <2>8, <2>9 DEF OverlapInv
  <1>5. ASSUME NEW r \in Replica, AcquireReplyLost(r) PROVE OverlapInv'
    <2>1. \A q \in Replica : Active(q) => SoonGone(q)
      BY <1>5, TakenLate DEF AcquireReplyLost
    <2>2. \A q \in Replica : (Active(q)' <=> Active(q)) /\ (SoonGone(q) => SoonGone(q)')
      BY <1>5 DEF AcquireReplyLost, Active, SoonGone
    <2>3. NobodyInv' /\ LeavingInv' /\ FreshInv'
      BY <1>5 DEF AcquireReplyLost, NobodyInv, LeavingInv, FreshInv
    <2>4. PairInv' /\ OwnedInv'
      BY <2>1, <2>2 DEF PairInv, OwnedInv
    <2>5. OverlapBounded'
      BY <1>5 DEF AcquireReplyLost, OverlapInv, OverlapBounded
    <2>6. QED
      BY <2>3, <2>4, <2>5 DEF OverlapInv
  <1>6. ASSUME NEW r \in Replica, RenewSucceeds(r) PROVE OverlapInv'
    BY <1>6, <1>a, QuietOverlapInv DEF RenewSucceeds, Active, TimerInv
  <1>7. ASSUME NEW r \in Replica, RenewFails(r) PROVE OverlapInv'
    BY <1>7, <1>a, QuietOverlapInv DEF RenewFails, Active, TimerInv
  <1>8. ASSUME NEW r \in Replica, CallbackRuns(r) PROVE OverlapInv'
    BY <1>8, <1>a, QuietOverlapInv DEF CallbackRuns, Active, TimerInv
  <1>9. ASSUME NEW r \in Replica, LeaveUnled(r) PROVE OverlapInv'
    <2>1. \A s \in Replica \ unseen' : age'[s] = 0 \/ (s \notin unseen /\ age'[s] = age[s])
      BY <1>9 DEF LeaveUnled, Stops
    <2>2. /\ phase' = [phase EXCEPT ![r] = "down"]
          /\ \A q \in Replica \ {r} : wake'[q] = wake[q]
          /\ holder' = holder /\ overlap' = overlap
      BY <1>9 DEF LeaveUnled, Stops
    <2>3. QED
      BY <1>a, <2>1, <2>2, QuietOverlapInv DEF Active, TimerInv
  <1>10. ASSUME NEW r \in Replica, LeaveLed(r) PROVE OverlapInv'
    <2>1. \A q \in Replica : Active(q)' <=> Active(q)
      BY <1>10 DEF LeaveLed, Active
    <2>2. ~SoonGone(r) /\ \A q \in Replica \ {r} : SoonGone(q) => SoonGone(q)'
      BY <1>10 DEF LeaveLed, SoonGone
    <2>3. NobodyInv'
      BY <1>10, <2>1 DEF LeaveLed, OverlapInv, NobodyInv
    <2>4. LeavingInv'
      <3>1. ASSUME NEW s \in Replica, s \notin unseen
            PROVE  age[s] <= NoticeTime
        BY <1>10, <3>1, <1>a, RenewedInTime
           DEF LeaveLed, LeadInv, AgeInv, TimerInv, NoticeTime
      <3>2. QED
        BY <1>10, <3>1 DEF LeaveLed, Wait, OverlapInv, LeavingInv, NoticeTime
    <2>5. PairInv'
      BY <2>1, <2>2 DEF OverlapInv, PairInv
    <2>6. FreshInv'
      BY <1>10, <2>1 DEF LeaveLed, OverlapInv, FreshInv, Several
    <2>7. OwnedInv'
      BY <1>10, <2>1, <2>2 DEF LeaveLed, OverlapInv, OwnedInv, Active
    <2>8. OverlapBounded'
      BY <1>10 DEF LeaveLed, OverlapInv, OverlapBounded
    <2>9. QED
      BY <2>3, <2>4, <2>5, <2>6, <2>7, <2>8 DEF OverlapInv
  <1>11. ASSUME NEW r \in Replica, SleepOver(r) PROVE OverlapInv'
    BY <1>11, <1>a, QuietOverlapInv DEF SleepOver, Stops, Active, TimerInv
  <1>12. ASSUME NEW r \in Replica, Kill(r) PROVE OverlapInv'
    <2>1. \A s \in Replica \ unseen' : age'[s] = 0 \/ (s \notin unseen /\ age'[s] = age[s])
      BY <1>12 DEF Kill, Stops
    <2>2. /\ phase' = [phase EXCEPT ![r] = "down"]
          /\ \A q \in Replica \ {r} : wake'[q] = wake[q]
          /\ holder' = holder /\ overlap' = overlap
      BY <1>12 DEF Kill, Stops
    <2>3. QED
      BY <1>a, <2>1, <2>2, QuietOverlapInv DEF Active, TimerInv
  <1>13. CASE Occur
    BY <1>13, <1>a, QuietOverlapInv DEF Occur, Active, TimerInv
  <1>14. CASE Tick
    <2>1. \A q \in Replica : (Active(q)' <=> Active(q)) /\ (Active(q) => Watches(q))
      BY <1>14 DEF Tick, Due, Active, Watches
    <2>2. \A q \in Replica : phase[q] = "leaving" => wake'[q] = wake[q] - 1
      BY <1>14 DEF Tick, Due, Less
    <2>3. \A q \in Replica : age'[q] <= age[q] + 1
      BY <1>14 DEF Tick, More
    <2>4. CASE Several
      <3>1. \E q \in Replica : SoonGone(q) /\ wake[q] > 0
        BY <1>14, <2>4 DEF Tick, Due, Several, OverlapInv, PairInv, SoonGone
      <3>2. overlap + 1 <= NoticeTime
        BY <3>1 DEF SoonGone, NoticeTime
      <3>3. overlap' = overlap + 1
        BY <1>14, <2>1, <2>4, <3>2 DEF Tick, Several, More, NoticeTime
      <3>4. \A q \in Replica : SoonGone(q) => SoonGone(q)'
        BY <1>14, <2>2, <3>3 DEF Tick, SoonGone
      <3>5. QED
        <4>1. NobodyInv' /\ PairInv' /\ OwnedInv'
          BY <1>14, <2>1, <3>4 DEF Tick, OverlapInv, NobodyInv, PairInv, OwnedInv
        <4>2. LeavingInv'
          BY <1>14, <2>2, <2>3 DEF Tick, OverlapInv, LeavingInv, NoticeTime
        <4>3. FreshInv'
          BY <1>14, <2>3, <2>4, <3>3 DEF Tick, OverlapInv, FreshInv
        <4>4. OverlapBounded'
          BY <3>2, <3>3 DEF OverlapBounded, NoticeTime
        <4>5. QED
          BY <4>1, <4>2, <4>3, <4>4 DEF OverlapInv
    <2>5. CASE ~Several
      <3>1. overlap' = 0
        BY <1>14, <2>5 DEF Tick, Several, Watches, Active
      <3>2. \A q \in Replica : SoonGone(q) => SoonGone(q)'
        BY <1>14, <2>2, <3>1 DEF Tick, SoonGone, NoticeTime
      <3>3. NobodyInv' /\ PairInv' /\ OwnedInv'
        BY <1>14, <2>1, <3>2 DEF Tick, OverlapInv, NobodyInv, PairInv, OwnedInv
      <3>4. LeavingInv'
        BY <1>14, <2>2, <2>3 DEF Tick, OverlapInv, LeavingInv, NoticeTime
      <3>5. FreshInv'
        BY <2>1, <2>5, <3>1 DEF FreshInv, Several
      <3>6. OverlapBounded'
        BY <3>1 DEF OverlapBounded
      <3>7. QED
        BY <3>3, <3>4, <3>5, <3>6 DEF OverlapInv
    <2>6. QED
      BY <2>4, <2>5
  <1>15. CASE UNCHANGED vars
    BY <1>15, <1>a, QuietOverlapInv DEF vars, Active, TimerInv
  <1>16. QED
    BY <1>1, <1>2, <1>3, <1>4, <1>5, <1>6, <1>7, <1>8, <1>9, <1>10, <1>11, <1>12,
       <1>13, <1>14, <1>15 DEF Next, Signal, LoseLease

-----------------------------------------------------------------------------
(* The gap *)

LEMMA RemainingInNat ==
  ASSUME TypeOK, NEW s \in Replica
  PROVE  Remaining(s) \in Nat
  BY DurationAssumption DEF TypeOK, Remaining

\* A step that leaves the history of gap and event as it is, and either excuses,
\* or leaves a leader, or makes nobody who waits take longer.
LEMMA QuietGapInv ==
  ASSUME TypeOK, TypeOK', GapInv,
         UNCHANGED <<event, eventAge, unwatched>>,
         excused => excused',
         \A q \in Replica : phase'[q] = "acquiring" => wake'[q] <= RetryMax,
         Watched' => Watched,
         \/ excused'
         \/ \E q \in Replica : Leads(q)'
         \/ /\ \A q \in Replica : ~Leads(q)
            /\ \A q \in Replica :
                 phase[q] = "acquiring" =>
                    phase'[q] = "acquiring" /\ Remaining(q)' <= Remaining(q)
            /\ \A q \in Replica :
                 phase[q] = "leaving" => phase'[q] = "leaving" /\ wake'[q] = wake[q]
  PROVE  GapInv'
  <1> USE DurationAssumption DEF GapInv
  <1>1. RetryInv' /\ WatchedInv' /\ GapBounded' /\ (2 * RetryMax <= MaxEventAge => NoEventLost')
    BY DEF RetryInv, WatchedInv, GapBounded, NoEventLost
  <1>2. StandbyInv'
    <2> SUFFICES ASSUME ~excused', unwatched # NeverWatched, \A q \in Replica : ~Leads(q)'
                 PROVE  \E s \in Replica :
                          /\ phase'[s] = "acquiring"
                          /\ TakesOverSoon(s)' \/ \E r \in Replica : CoveredBy(r, s)'
      BY DEF StandbyInv
    <2>1. PICK s \in Replica :
            phase[s] = "acquiring" /\ (TakesOverSoon(s) \/ \E r \in Replica : CoveredBy(r, s))
      BY DEF StandbyInv
    <2>2. phase'[s] = "acquiring" /\ Remaining(s)' <= Remaining(s)
      BY <2>1
    <2>3. Remaining(s) \in Nat /\ Remaining(s)' \in Nat
      BY RemainingInNat, <2>1 DEF TypeOK, Remaining
    <2>4. CASE TakesOverSoon(s)
      BY <2>2, <2>3, <2>4 DEF TakesOverSoon, TypeOK, NeverWatched
    <2>5. ASSUME NEW r \in Replica, CoveredBy(r, s) PROVE CoveredBy(r, s)'
      BY <2>2, <2>3, <2>5 DEF CoveredBy, TypeOK
    <2> QED
      BY <2>1, <2>2, <2>4, <2>5
  <1> QED
    BY <1>1, <1>2

\* One that waits when a leader stops renewing takes over one lease and two
\* retries later at the latest.
LEMMA StandbyInTime ==
  ASSUME TypeOK, RetryInv, NEW s \in Replica, phase[s] = "acquiring"
  PROVE  Remaining(s) <= LeaseDuration + 2 * RetryMax - 1
  BY DurationAssumption DEF TypeOK, RetryInv, Remaining

LEMMA NextGapInv ==
  ASSUME TypeOK, TypeOK', GapInv, [Next]_vars
  PROVE  GapInv'
  <1> USE DurationAssumption
      DEF Phase, leaseVars, historyVars, Leads, Watches, Watched
  <1>a. /\ RetryInv
        /\ wake \in [Replica -> 0 .. LeaseDuration + RetryMax] /\ phase \in [Replica -> Phase]
        /\ age \in [Replica -> 0 .. LeaseDuration] /\ excused \in BOOLEAN
    BY DEF GapInv, TypeOK
  <1>1. ASSUME NEW r \in Replica, Start(r) PROVE GapInv'
    <2>1. \A q \in Replica : phase[q] = "acquiring" => Remaining(q)' = Remaining(q)
      BY <1>1, <1>a DEF Start, Remaining
    <2>2. \A q \in Replica : phase'[q] = "acquiring" => wake'[q] <= RetryMax
      BY <1>1, <1>a DEF Start, RetryInv
    <2>3. \A q \in Replica : phase[q] = "acquiring" => Remaining(q)' <= Remaining(q)
      BY <2>1, RemainingInNat
    <2>4. phase' = [phase EXCEPT ![r] = "acquiring"] /\ phase[r] = "down" /\ wake' = wake
          /\ UNCHANGED <<event, eventAge, unwatched, excused>>
      BY <1>1 DEF Start
    <2> QED
      BY <1>a, <2>2, <2>3, <2>4, QuietGapInv
  <1>2. ASSUME NEW r \in Replica, LookFails(r) PROVE GapInv'
    <2>1. \A q \in Replica : phase'[q] = "acquiring" => wake'[q] <= RetryMax
      BY <1>2, <1>a DEF LookFails, RetryInv
    <2>2. excused' \/ \E q \in Replica : Leads(q)'
      BY <1>2 DEF LookFails, LeaderWatches
    <2> QED
      BY <1>2, <2>1, <2>2, QuietGapInv DEF LookFails
  <1>3. ASSUME NEW r \in Replica, LookAndWait(r) PROVE GapInv'
    <2>1. \A q \in Replica : phase'[q] = "acquiring" => wake'[q] <= RetryMax
      BY <1>3, <1>a DEF LookAndWait, RetryInv
    <2>2. ASSUME NEW q \in Replica, phase[q] = "acquiring"
          PROVE  Remaining(q)' <= Remaining(q)
      <3>1. CASE q = r
        BY <1>3, <1>a, <3>1 DEF LookAndWait, Remaining, LeaseValid, AgeSeen
      <3>2. CASE q # r
        BY <1>3, <1>a, <3>2, RemainingInNat DEF LookAndWait, Remaining
      <3> QED
        BY <3>1, <3>2
    <2>3. \A q \in Replica : phase[q] = "leaving" => wake'[q] = wake[q]
      BY <1>3, <1>a DEF LookAndWait
    <2>4. phase' = phase /\ UNCHANGED <<event, eventAge, unwatched, excused>>
      BY <1>3 DEF LookAndWait
    <2> QED
      BY <2>1, <2>2, <2>3, <2>4, QuietGapInv
  <1>4. ASSUME NEW r \in Replica, Acquire(r) PROVE GapInv'
    BY <1>4, <1>a, QuietGapInv DEF Acquire, RetryInv
  <1>5. ASSUME NEW r \in Replica, AcquireReplyLost(r) PROVE GapInv'
    BY <1>5, <1>a, QuietGapInv DEF AcquireReplyLost, RetryInv
  <1>6. ASSUME NEW r \in Replica, RenewSucceeds(r) PROVE GapInv'
    BY <1>6, <1>a, QuietGapInv DEF RenewSucceeds, RetryInv
  <1>7. ASSUME NEW r \in Replica, RenewFails(r) PROVE GapInv'
    BY <1>7, <1>a, QuietGapInv DEF RenewFails, RetryInv
  <1>8. ASSUME NEW r \in Replica, CallbackRuns(r) PROVE GapInv'
    <2>1. Leads(r)' /\ unwatched' = 0 /\ event' # "pending" /\ (event' = "lost" => event = "lost")
      BY <1>8, <1>a DEF CallbackRuns
    <2>2. RetryInv'
      BY <1>8, <1>a DEF CallbackRuns, RetryInv
    <2> QED
      BY <2>1, <2>2
         DEF GapInv, WatchedInv, StandbyInv, GapBounded, NoEventLost, NeverWatched
  <1>9. ASSUME NEW r \in Replica, Stops(r), UNCHANGED <<event, eventAge, unwatched>>,
               \/ phase[r] = "acquiring" /\ excused' = (excused \/ ~LeaderBeside(r))
               \/ excused'
        PROVE  GapInv'
    <2>1. phase' = [phase EXCEPT ![r] = "down"]
      BY <1>9 DEF Stops
    <2>2. \A q \in Replica : phase'[q] = "acquiring" => wake'[q] <= RetryMax
      BY <1>9, <1>a DEF Stops, RetryInv
    <2>3. excused' \/ \E q \in Replica : Leads(q)'
      BY <1>9, <1>a, <2>1 DEF LeaderBeside
    <2>4. excused => excused'
      BY <1>9
    <2> QED
      BY <1>9, <1>a, <2>1, <2>2, <2>3, <2>4, QuietGapInv
  <1>10. ASSUME NEW r \in Replica, LeaveUnled(r) PROVE GapInv'
    BY <1>9, <1>10, <1>a DEF LeaveUnled
  <1>11. ASSUME NEW r \in Replica, LeaveLed(r) PROVE GapInv'
    <2>1. /\ phase' = [phase EXCEPT ![r] = "leaving"] /\ phase[r] = "leading"
          /\ wake' = [wake EXCEPT ![r] = LeaseDuration]
          /\ UNCHANGED <<unseen, age, event, eventAge, unwatched>>
          /\ excused' = (excused \/ ~StandbyFor(r))
      BY <1>11 DEF LeaveLed, Wait
    <2>2. RetryInv'
      BY <1>a, <2>1 DEF RetryInv
    <2>3. StandbyInv'
      <3> SUFFICES ASSUME ~excused'
                   PROVE  \E s \in Replica : phase'[s] = "acquiring" /\ CoveredBy(r, s)'
        BY DEF StandbyInv
      <3>1. PICK s \in Replica \ {r} : phase[s] = "acquiring"
        BY <2>1 DEF StandbyFor
      <3>2. Remaining(s)' = Remaining(s) /\ phase'[s] = "acquiring"
        BY <1>a, <2>1, <3>1 DEF Remaining
      <3>3. Remaining(s) <= LeaseDuration + 2 * RetryMax - 1
        BY <1>a, <3>1, StandbyInTime
      <3>4. phase'[r] = "leaving" /\ wake'[r] = LeaseDuration
        BY <1>a, <2>1
      <3> QED
        BY <3>2, <3>3, <3>4 DEF CoveredBy
    <2>4. WatchedInv' /\ GapBounded' /\ (2 * RetryMax <= MaxEventAge => NoEventLost')
      BY <1>a, <2>1 DEF GapInv, WatchedInv, GapBounded, NoEventLost
    <2> QED
      BY <2>2, <2>3, <2>4 DEF GapInv
  <1>12. ASSUME NEW r \in Replica, SleepOver(r) PROVE GapInv'
    <2>1. /\ phase[r] = "leaving" /\ wake[r] = 0
          /\ phase' = [phase EXCEPT ![r] = "down"] /\ wake' = [wake EXCEPT ![r] = 1]
          /\ age' = [age EXCEPT ![r] = 0]
          /\ UNCHANGED <<unseen, event, eventAge, unwatched, excused>>
      BY <1>12 DEF SleepOver, Stops
    <2>2. RetryInv'
      BY <1>a, <2>1 DEF RetryInv
    <2>3. unwatched = 0 /\ event # "pending"
      BY <2>1 DEF GapInv, WatchedInv
    <2>4. StandbyInv'
      <3> SUFFICES ASSUME ~excused, \A q \in Replica : ~Leads(q)'
                   PROVE  \E s \in Replica :
                            /\ phase'[s] = "acquiring"
                            /\ TakesOverSoon(s)' \/ \E q \in Replica : CoveredBy(q, s)'
        BY <2>1 DEF StandbyInv
      <3>1. \A q \in Replica : ~Leads(q)
        BY <1>a, <2>1
      <3>2. PICK s \in Replica :
              phase[s] = "acquiring" /\ (TakesOverSoon(s) \/ \E q \in Replica : CoveredBy(q, s))
        BY <2>3, <3>1 DEF GapInv, StandbyInv, NeverWatched
      <3>3. phase'[s] = "acquiring" /\ Remaining(s)' = Remaining(s) /\ Remaining(s) \in Nat
        BY <1>a, <2>1, <3>2, RemainingInNat DEF Remaining
      <3>4. CASE TakesOverSoon(s)
        BY <2>1, <3>3, <3>4 DEF TakesOverSoon
      <3>5. CASE CoveredBy(r, s)
        BY <2>1, <2>3, <3>3, <3>5 DEF CoveredBy, TakesOverSoon
      <3>6. ASSUME NEW q \in Replica, q # r, CoveredBy(q, s) PROVE CoveredBy(q, s)'
        BY <1>a, <2>1, <3>3, <3>6 DEF CoveredBy
      <3> QED
        BY <3>2, <3>3, <3>4, <3>5, <3>6
    <2>5. WatchedInv' /\ GapBounded' /\ (2 * RetryMax <= MaxEventAge => NoEventLost')
      BY <1>a, <2>1, <2>3 DEF GapInv, WatchedInv, GapBounded, NoEventLost
    <2> QED
      BY <2>2, <2>4, <2>5 DEF GapInv
  <1>13. ASSUME NEW r \in Replica, Kill(r) PROVE GapInv'
    BY <1>9, <1>13, <1>a DEF Kill
  <1>14. CASE Occur
    <2>1. /\ event = "none" /\ unwatched # NeverWatched
          /\ event' = (IF Watched THEN "handled" ELSE "pending")
          /\ eventAge' = 0
          /\ UNCHANGED <<phase, wake, unseen, age, unwatched, excused>>
      BY <1>14 DEF Occur
    <2>2. RetryInv' /\ WatchedInv' /\ GapBounded' /\ NoEventLost'
      BY <2>1 DEF GapInv, RetryInv, WatchedInv, GapBounded, NoEventLost
    <2>3. StandbyInv'
      <3>1. \A r, s \in Replica : CoveredBy(r, s)' <=> CoveredBy(r, s)
        BY <2>1 DEF CoveredBy, Remaining
      <3>2. ASSUME NEW s \in Replica, TakesOverSoon(s), unwatched # NeverWatched
            PROVE  TakesOverSoon(s)'
        <4>1. Remaining(s)' = Remaining(s) /\ Remaining(s) \in Nat
          BY <2>1, RemainingInNat DEF Remaining
        <4>2. unwatched \in Nat
          BY <3>2 DEF TypeOK, NeverWatched
        <4> QED
          BY <2>1, <3>2, <4>1, <4>2 DEF TakesOverSoon
      <3>3. StandbyInv
        BY DEF GapInv
      <3> QED
        BY <2>1, <3>1, <3>2, <3>3 DEF StandbyInv
    <2> QED
      BY <2>2, <2>3 DEF GapInv
  <1>15. CASE Tick
    <2>1. /\ \A q \in Replica : ~Due(q)
          /\ wake' = [r \in Replica |-> Less(wake[r])]
          /\ UNCHANGED <<phase, unseen, excused>>
          /\ unwatched' = (IF Watched \/ unwatched = NeverWatched
                           THEN unwatched ELSE More(unwatched, MaxGap))
          /\ GrowOld
      BY <1>15 DEF Tick
    <2>2. \A q \in Replica : /\ phase[q] # "won"
                             /\ phase[q] \in {"acquiring", "leading", "leaving"} =>
                                  wake[q] > 0 /\ wake'[q] = wake[q] - 1
      BY <1>a, <2>1 DEF Due, Less
    <2>3. RetryInv'
      BY <1>a, <2>1, <2>2 DEF RetryInv
    <2>4. \A s \in Replica : phase[s] = "acquiring" =>
            Remaining(s) \in Nat \ {0} /\ Remaining(s)' <= Remaining(s) - 1
      <3> SUFFICES ASSUME NEW s \in Replica, phase[s] = "acquiring"
                   PROVE  Remaining(s) \in Nat \ {0} /\ Remaining(s)' <= Remaining(s) - 1
        OBVIOUS
      <3>1. age'[s] = More(age[s], LeaseDuration) /\ wake'[s] = wake[s] - 1 /\ wake[s] > 0
            /\ wake[s] \in Nat /\ wake[s] <= RetryMax /\ age[s] \in 0 .. LeaseDuration
        BY <1>15, <1>a, <2>2 DEF Tick, RetryInv
      <3> QED
        BY <2>1, <3>1 DEF Remaining, More
    <2>5. CASE Watched
      <3>1. unwatched' = 0 /\ unwatched = 0 /\ event # "pending" /\ event' = event
        BY <2>1, <2>5 DEF GapInv, WatchedInv, GrowOld
      <3>2. StandbyInv'
        <4> SUFFICES ASSUME ~excused, \A q \in Replica : ~Leads(q)
                     PROVE  \E s \in Replica :
                              /\ phase[s] = "acquiring"
                              /\ TakesOverSoon(s)' \/ \E q \in Replica : CoveredBy(q, s)'
          BY <2>1 DEF StandbyInv
        <4>1. PICK s \in Replica :
                phase[s] = "acquiring" /\ (TakesOverSoon(s) \/ \E q \in Replica : CoveredBy(q, s))
          BY <3>1 DEF GapInv, StandbyInv, NeverWatched
        <4>2. Remaining(s) \in Nat /\ Remaining(s)' <= Remaining(s) - 1 /\ Remaining(s)' \in Nat
          BY <2>4, <4>1, RemainingInNat DEF TypeOK, Remaining
        <4>3. CASE TakesOverSoon(s)
          BY <3>1, <4>1, <4>2, <4>3 DEF TakesOverSoon
        <4>4. ASSUME NEW q \in Replica, CoveredBy(q, s) PROVE CoveredBy(q, s)'
          BY <1>a, <2>1, <2>2, <4>2, <4>4 DEF CoveredBy
        <4> QED
          BY <4>1, <4>3, <4>4
      <3> QED
        BY <2>3, <3>1, <3>2 DEF GapInv, WatchedInv, GapBounded, NoEventLost
    <2>6. CASE ~Watched
      <3>1. WatchedInv'
        BY <2>1, <2>6 DEF GapInv, WatchedInv, TypeOK, NeverWatched, More, GrowOld
      <3>2. CASE excused \/ unwatched = NeverWatched
        <4>1. StandbyInv' /\ GapBounded'
          BY <2>1, <2>6, <3>2 DEF StandbyInv, GapBounded, NeverWatched
        <4>2. NoEventLost => NoEventLost'
          BY <2>1, <3>2 DEF GapInv, WatchedInv, GrowOld, NoEventLost
        <4> QED
          BY <2>3, <3>1, <4>1, <4>2 DEF GapInv
      <3>3. CASE ~excused /\ unwatched # NeverWatched
        <4>1. PICK s \in Replica : phase[s] = "acquiring" /\ TakesOverSoon(s)
          BY <2>2, <2>6, <3>3 DEF GapInv, StandbyInv, CoveredBy
        <4>2. Remaining(s) \in Nat \ {0} /\ Remaining(s)' <= Remaining(s) - 1 /\ Remaining(s)' \in Nat
          BY <2>4, <4>1, RemainingInNat DEF TypeOK, Remaining
        <4>3. unwatched \in Nat /\ unwatched' \in Nat /\ unwatched' <= unwatched + 1
          BY <2>1, <2>6, <3>3 DEF TypeOK, NeverWatched, More
        <4>4. unwatched' <= 2 * RetryMax - 1 /\ Remaining(s)' + unwatched' <= 2 * RetryMax - 1
          BY <4>1, <4>2, <4>3 DEF TakesOverSoon
        <4>5. event' = "pending" => Remaining(s)' + eventAge' <= 2 * RetryMax - 1
          BY <2>1, <4>1, <4>2 DEF TakesOverSoon, GrowOld, TypeOK
        <4>6. 2 * RetryMax <= MaxEventAge /\ NoEventLost => NoEventLost'
          BY <2>1, <4>1, <4>2 DEF TakesOverSoon, GrowOld, TypeOK, NoEventLost
        <4>7. StandbyInv'
          BY <2>1, <4>1, <4>4, <4>5 DEF StandbyInv, TakesOverSoon
        <4> QED
          BY <2>1, <2>3, <3>1, <4>3, <4>4, <4>6, <4>7 DEF GapInv, GapBounded
      <3> QED
        BY <3>2, <3>3
    <2> QED
      BY <2>5, <2>6
  <1>16. CASE UNCHANGED vars
    BY <1>16 DEF vars, GapInv, RetryInv, WatchedInv, StandbyInv, GapBounded, NoEventLost,
       TakesOverSoon, CoveredBy, Remaining
  <1> QED
    BY <1>1, <1>2, <1>3, <1>4, <1>5, <1>6, <1>7, <1>8, <1>10, <1>11, <1>12, <1>13,
       <1>14, <1>15, <1>16 DEF Next, Signal, LoseLease

-----------------------------------------------------------------------------
(* Theorems *)

LEMMA StepIInv == IInv /\ [Next]_vars => IInv'
  <1> SUFFICES ASSUME IInv, [Next]_vars PROVE IInv'
    OBVIOUS
  <1>1. TypeOK'
    BY NextTypeOK DEF IInv
  <1>2. LeadInv'
    BY NextLeadInv DEF IInv
  <1>3. NoticeTime <= MaxGap => OverlapInv'
    BY <1>1, NextOverlapInv DEF IInv
  <1>4. GapInv'
    BY <1>1, NextGapInv DEF IInv
  <1>5. QED
    BY <1>1, <1>2, <1>3, <1>4 DEF IInv, NoticeTime

\* The inductive invariant of the handover: what the timers of leaders, of those
\* that leave and of those that wait say of one another.
THEOREM Invariance == Spec => []IInv
  BY InitIInv, StepIInv, PTL DEF Spec

\* The timers of every replica stay within the durations they are set to
\* (leaderelection.go:26-28).
THEOREM TypeCorrect == Spec => []TypeOK
  BY Invariance, PTL DEF IInv

\* However requests, replies, signals and kills fall, no two of any number of
\* replicas believe to be the leader (leaderelection.go:26-28).
THEOREM OnlyOneLeads == Spec => []OneLeader
  <1>1. IInv => OneLeader
    BY DEF IInv, LeadInv, HolderInv, OneLeader
  <1>2. QED
    BY <1>1, Invariance, PTL

\* Whatever the bound of the history: two processes send the same events no
\* longer than a leader may take to notice its loss (main.go:198-206).
THEOREM OverlapShort == Spec => []OverlapBounded
  <1>1. IInv => OverlapBounded
    BY DurationAssumption DEF IInv, TypeOK, OverlapInv, OverlapBounded, NoticeTime
  <1>2. QED
    BY <1>1, Invariance, PTL

\* After a handover in order the cluster is unwatched for two retries at most,
\* for any durations: the wait of one lease covers all of the rest, and only
\* the retries of those that wait are not covered (main.go:198-206).
THEOREM GapShort == Spec => []GapBounded
  <1>1. IInv => GapBounded
    BY DEF IInv, GapInv
  <1>2. QED
    BY <1>1, Invariance, PTL

\* What main.go:200-202 says of the wait is true where the age limit of events
\* covers two retries, and leader_gap shows that it is not with the defaults.
THEOREM NoneLostInHandover ==
  ASSUME 2 * RetryMax <= MaxEventAge
  PROVE  Spec => []NoEventLost
  <1>1. IInv => NoEventLost
    BY DEF IInv, GapInv
  <1>2. QED
    BY <1>1, Invariance, PTL

=============================================================================
