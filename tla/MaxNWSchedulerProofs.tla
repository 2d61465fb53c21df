------------------------ MODULE MaxNWSchedulerProofs ------------------------
(***************************************************************************)
(* The safety of MaxNWScheduler, for any number of threads, any bandwidth  *)
(* and any buffer size that fits it: the accounts are exact, the rate is   *)
(* kept in the long run, no wakeup is lost.                                *)
(***************************************************************************)
EXTENDS MaxNWScheduler, Arithmetic

\* The inductive invariant.  ChargedInTime needs Accounting (what a call adds
\* is added to the last deadline), which needs the types and the int bounds.
Inv == TypeOK /\ Accounting /\ ChargedInTime /\ NoLostWakeup

\* What the assumptions say of the constants: a buffer's cost does not wrap.
LEMMA ConstantTypes ==
  /\ BootMS \in Nat \ {0}
  /\ BUF_SIZE \in Nat \ {0} /\ BytesToBlast \in Nat
  /\ MsPerSec \in Nat \ {0} /\ maxBytes \in Nat \ {0}
  /\ INT_MAX \in Nat
  /\ Cost \in Nat \ {0}
  /\ Int32(MsPerSec * BUF_SIZE) = Cost
<1>1. /\ BootMS \in Nat \ {0}
      /\ BUF_SIZE \in Nat \ {0} /\ BytesToBlast \in Nat
      /\ MsPerSec \in Nat \ {0} /\ maxBytes \in Nat \ {0}
      /\ INT_MAX \in Nat /\ MsPerSec * BUF_SIZE <= INT_MAX
  BY BootAssumption, BlastAssumption, MaxAssumption, IntMaxAssumption
<1>2. \A a, b \in Nat \ {0} : a * b \in Nat \ {0}
  BY SMT
<1>3. Cost \in Nat \ {0}
  BY <1>1, <1>2 DEF Cost
<1>4. Int32(MsPerSec * BUF_SIZE) = Cost
  <2>1. Cost \in Int /\ -INT_MAX - 1 <= Cost /\ Cost <= INT_MAX
    BY <1>1, <1>3 DEF Cost
  <2>2. Int32(Cost) = Cost
    BY <2>1, FitsInt
  <2> QED BY <2>2 DEF Cost
<1> QED
  BY <1>1, <1>3, <1>4

\* Capacity is an integer, zero over no time, and no less over more.
LEMMA CapacityType ==
  ASSUME NEW a \in Int, NEW b \in Int
  PROVE  /\ Capacity(a, b) \in Int
         /\ a <= b => Capacity(a, b) >= 0
         /\ Capacity(a, a) = 0
         /\ Capacity(a, a + 1) = maxBytes
<1>1. maxBytes \in Nat
  BY ConstantTypes
<1>2. \A d \in Int, m \in Nat : d * m \in Int /\ (d >= 0 => d * m >= 0)
  BY SMT
<1>3. b - a \in Int /\ (a <= b => b - a >= 0) /\ a - a = 0 /\ a + 1 - a = 1
  OBVIOUS
<1> QED
  BY <1>1, <1>2, <1>3 DEF Capacity

\* Capacity is additive.
LEMMA CapacityAdds ==
  ASSUME NEW a \in Int, NEW b \in Int, NEW c \in Int
  PROVE  Capacity(a, b) + Capacity(b, c) = Capacity(a, c)
<1>1. maxBytes \in Nat
  BY ConstantTypes
<1> QED
  BY <1>1 DEF Capacity

\* Later is more.
LEMMA CapacityMonotone ==
  ASSUME NEW a \in Int, NEW b \in Int, NEW c \in Int, b <= c
  PROVE  Capacity(a, b) <= Capacity(a, c) /\ Capacity(c, a) <= Capacity(b, a)
<1>1. /\ Capacity(b, c) >= 0
      /\ Capacity(a, b) + Capacity(b, c) = Capacity(a, c)
      /\ Capacity(b, c) + Capacity(c, a) = Capacity(b, a)
  BY CapacityType, CapacityAdds
<1>2. /\ Capacity(a, b) \in Int /\ Capacity(b, c) \in Int /\ Capacity(a, c) \in Int
      /\ Capacity(c, a) \in Int /\ Capacity(b, a) \in Int
  BY CapacityType, CapacityAdds
<1> QED
  BY <1>1, <1>2

\* The alarm thread's call, on the accounts: the deadline moves by what was in
\* BytesToSend, to the fraction kept in runOff, and never goes back.
LEMMA DeadlineStep ==
  ASSUME TypeOK, SignalNextDeadline
  PROVE  /\ deadline' \in Nat
         /\ deadline' >= NextDL
         /\ runOff' \in 0 .. (maxBytes - 1)
         /\ BytesToSend' = 0
         /\ BytesToSend + runOff = Capacity(NextDL, deadline') + runOff'
<1>0. maxBytes \in Nat \ {0} /\ Cost \in Nat \ {0}
  BY ConstantTypes
<1>1. NextDL \in Nat /\ BytesToSend \in Nat /\ runOff \in 0 .. (maxBytes - 1)
  BY <1>0, ConstantTypes DEF TypeOK, NextDL
<1>2. CASE BytesToSend > 0
  <2> DEFINE r == CalRunOff(BytesToSend, maxBytes, NextDL, runOff, 1)
  <2>1. deadline' = r.time /\ runOff' = r.runOff /\ BytesToSend' = 0
    BY <1>0, <1>1, <1>2 DEF SignalNextDeadline
  <2>2. 2 * maxBytes - 2 <= INT_MAX
    BY MaxAssumption
  <2>3. runOff \in -1 .. (maxBytes - 1) /\ 1 \in Nat \ {0} /\ 1 - 1 = 0
    BY <1>0, <1>1
  <2>4. /\ r.time \in Nat
        /\ r.time >= NextDL
        /\ r.runOff \in -1 .. (maxBytes - 1)
        /\ runOff >= 0 => r.runOff >= 0
        /\ Charges(BytesToSend, maxBytes, NextDL, runOff, r, 0)
    BY <1>0, <1>1, <2>2, <2>3, CalRunOffExact
  <2> HIDE DEF r
  <2>5. r.time - NextDL - 0 = r.time - NextDL
    BY <1>0, <1>1, <2>4
  <2>6. BytesToSend + runOff = Capacity(NextDL, r.time) + r.runOff
    BY <2>4, <2>5 DEF Charges, Capacity
  <2> QED BY <1>0, <1>1, <2>1, <2>4, <2>6
<1>3. CASE BytesToSend = 0
  <2>1. deadline' = NextDL /\ runOff' = runOff /\ BytesToSend' = 0
    BY <1>3 DEF SignalNextDeadline
  <2>2. Capacity(NextDL, NextDL) = 0
    BY <1>0, <1>1, CapacityType, CapacityAdds
  <2>3. Capacity(NextDL, deadline') = 0
    BY <2>1, <2>2
  <2> QED BY <1>0, <1>1, <1>3, <2>1, <2>3
<1> QED
  BY <1>1, <1>2, <1>3

-----------------------------------------------------------------------------

\* The invariant holds at the start.
LEMMA InitInv == Init => Inv
<1> SUFFICES ASSUME Init PROVE Inv
  OBVIOUS
<1> USE ConstantTypes DEF Init, AlarmInit, BlastInit
<1>1. TypeOK
  BY DEF TypeOK, BlastStates
<1>2. Charged = 0
  BY DEF Charged
<1>3. Accounting
  BY <1>2 DEF Accounting
<1>4. ChargedInTime
  <2>1. Capacity(BootMS, BootMS) = 0
    BY CapacityType, CapacityAdds
  <2> QED BY <1>2, <2>1 DEF ChargedInTime
<1>5. NoLostWakeup
  BY DEF NoLostWakeup
<1> QED
  BY <1>1, <1>3, <1>4, <1>5 DEF Inv

\* Every action keeps the types.
LEMMA TypeStep == TypeOK /\ [Next]_vars => TypeOK'
<1> SUFFICES ASSUME TypeOK, [Next]_vars PROVE TypeOK'
  OBVIOUS
<1> USE DEF TypeOK, BlastStates
<1>0. /\ BootMS \in Nat /\ BUF_SIZE \in Nat /\ maxBytes \in Nat \ {0}
      /\ Int32(MsPerSec * BUF_SIZE) = Cost
  BY ConstantTypes
<1>1. CASE Clock
  BY <1>0, <1>1 DEF Clock, Tick, blastVars, schedVars
<1>2. CASE SignalNextDeadline
  <2>1. /\ deadline' \in Nat
        /\ runOff' \in 0 .. (maxBytes - 1)
        /\ BytesToSend' = 0
    BY <1>2, DeadlineStep
  <2>2. epoch' \in Nat
    BY <1>2 DEF SignalNextDeadline, NextDL
  <2>3. asleep' \in SUBSET Thread /\ alarm' \in {"signal", "sleep"}
    BY <1>2 DEF SignalNextDeadline, WakeAll
  <2>4. UNCHANGED <<now, pc, tot, granted>>
    BY <1>2 DEF SignalNextDeadline
  <2> QED BY <2>1, <2>2, <2>3, <2>4
<1>3. CASE Sleep
  BY <1>3 DEF Sleep, AlarmSleep, blastVars, schedVars
<1>4. ASSUME NEW t \in Thread, Proceed(t) PROVE TypeOK'
  BY <1>0, <1>4 DEF Proceed, Goto, alarmVars
<1>5. ASSUME NEW t \in Thread, Wait(t) PROVE TypeOK'
  BY <1>5 DEF Wait, Goto, alarmVars, schedVars
<1>6. ASSUME NEW t \in Thread, Write(t) PROVE TypeOK'
  BY <1>0, <1>6 DEF Write, SendDone, Goto, alarmVars, schedVars
<1>7. ASSUME NEW t \in Thread, WriteError(t) PROVE TypeOK'
  BY <1>7 DEF WriteError, SendFails, Goto, alarmVars, schedVars
<1>8. ASSUME NEW t \in Thread, Spurious(t) PROVE TypeOK'
  BY <1>8 DEF Spurious, SpuriousWakeup, alarmVars, schedVars
<1>9. CASE UNCHANGED vars
  BY <1>9 DEF vars, alarmVars, blastVars, schedVars
<1> QED
  BY <1>1, <1>2, <1>3, <1>4, <1>5, <1>6, <1>7, <1>8, <1>9
     DEF Next, Work, AlarmThread, Sender

\* Every step other than the alarm thread's call leaves the accounts alone:
\* waitMyTurn adds to granted what it puts in BytesToSend.
LEMMA ChargedSteady ==
  ASSUME TypeOK, [Next]_vars
  PROVE  \/ SignalNextDeadline
         \/ /\ Charged' = Charged
            /\ UNCHANGED <<deadline, epoch, runOff>>
<1>0. /\ MsPerSec \in Nat /\ BUF_SIZE \in Nat /\ Cost \in Nat
      /\ Int32(MsPerSec * BUF_SIZE) = Cost
  BY ConstantTypes
<1>1. ASSUME NEW t \in Thread, Proceed(t)
      PROVE  Charged' = Charged /\ UNCHANGED <<deadline, epoch, runOff>>
  <2>1. granted' = granted + BUF_SIZE /\ BytesToSend' = Cost /\ BytesToSend = 0
    BY <1>0, <1>1 DEF Proceed, canSafelySend
  <2>2. MsPerSec * (granted + BUF_SIZE) = MsPerSec * granted + MsPerSec * BUF_SIZE
    BY <1>0 DEF TypeOK
  <2>3. MsPerSec * granted \in Int /\ MsPerSec * BUF_SIZE \in Int
    BY <1>0 DEF TypeOK
  <2>4. MsPerSec * granted' - BytesToSend' = MsPerSec * granted - BytesToSend
    BY <2>1, <2>2, <2>3 DEF Cost
  <2> QED BY <1>1, <2>4 DEF Charged, Proceed, alarmVars
<1>2. ASSUME UNCHANGED <<deadline, schedVars>>
      PROVE  Charged' = Charged /\ UNCHANGED <<deadline, epoch, runOff>>
  BY <1>2 DEF Charged, schedVars
<1>3. SignalNextDeadline \/ (\E t \in Thread : Proceed(t)) \/ UNCHANGED <<deadline, schedVars>>
  BY DEF Next, Work, AlarmThread, Sender, Clock, Tick, Sleep, AlarmSleep, Wait, Write,
         SendDone, WriteError, SendFails, Spurious, SpuriousWakeup,
         vars, alarmVars, schedVars
<1> QED
  BY <1>1, <1>2, <1>3

\* The alarm thread's call moves to Charged what it moves into the deadline.
LEMMA ChargedBySignal ==
  ASSUME TypeOK, SignalNextDeadline
  PROVE  Charged' = Charged + BytesToSend
<1>1. MsPerSec * granted \in Int /\ BytesToSend \in Int
  BY ConstantTypes DEF TypeOK
<1>2. granted' = granted /\ BytesToSend' = 0
  BY DeadlineStep DEF SignalNextDeadline
<1> QED
  BY <1>1, <1>2 DEF Charged

\* calRunOff keeps the accounts, and no other step touches them.
LEMMA AccountingStep == TypeOK /\ Accounting /\ [Next]_vars => Accounting'
<1> SUFFICES ASSUME TypeOK, Accounting, [Next]_vars PROVE Accounting'
  OBVIOUS
<1>0. maxBytes \in Nat \ {0} /\ BootMS \in Nat \ {0} /\ MsPerSec \in Nat
  BY ConstantTypes
<1>1. CASE SignalNextDeadline
  <2>1. /\ deadline' \in Nat
        /\ deadline' >= NextDL
        /\ runOff' \in 0 .. (maxBytes - 1)
        /\ BytesToSend + runOff = Capacity(NextDL, deadline') + runOff'
    BY <1>1, DeadlineStep
  <2>2. Charged' = Charged + BytesToSend
    BY <1>1, ChargedBySignal
  <2>3. NextDL \in Nat /\ NextDL # 0 /\ epoch' \in Nat /\ epoch' > BootMS
    BY <1>0, <1>1 DEF SignalNextDeadline, NextDL, TypeOK, Accounting
  <2>4. Charged + BytesToSend = Capacity(epoch', deadline') + runOff'
    <3>1. Charged = Capacity(epoch', NextDL) + runOff
      <4>1. CASE deadline = 0
        <5>1. epoch' = NextDL
          BY <1>1, <4>1 DEF SignalNextDeadline
        <5>2. Capacity(NextDL, NextDL) = 0
          BY <2>3, CapacityType, CapacityAdds
        <5> QED BY <4>1, <5>1, <5>2 DEF Accounting
      <4>2. CASE deadline # 0
        BY <1>1, <4>2 DEF SignalNextDeadline, NextDL, Accounting
      <4> QED BY <4>1, <4>2
    <3>2. Capacity(epoch', NextDL) + Capacity(NextDL, deadline') = Capacity(epoch', deadline')
      BY <2>1, <2>3, CapacityType, CapacityAdds
    <3>3. /\ Capacity(NextDL, deadline') \in Int /\ Capacity(epoch', NextDL) \in Int
          /\ BytesToSend \in Int /\ runOff \in Int /\ runOff' \in Int
      BY <1>0, <2>1, <2>3, CapacityType, CapacityAdds, ConstantTypes DEF TypeOK
    <3> QED BY <2>1, <3>1, <3>2, <3>3
  <2>5. deadline' # 0
    BY <2>1, <2>3
  <2> QED BY <2>2, <2>3, <2>4, <2>5 DEF Accounting
<1>2. CASE Charged' = Charged /\ UNCHANGED <<deadline, epoch, runOff>>
  BY <1>2 DEF Accounting
<1> QED
  BY <1>1, <1>2, ChargedSteady

\* Charges stay behind the clock: a deadline is computed only when it has come.
LEMMA ChargedInTimeStep ==
  TypeOK /\ Accounting /\ ChargedInTime /\ [Next]_vars => ChargedInTime'
<1> SUFFICES ASSUME TypeOK, Accounting, ChargedInTime, [Next]_vars
             PROVE  ChargedInTime'
  OBVIOUS
<1>0. /\ maxBytes \in Nat \ {0} /\ BootMS \in Nat \ {0} /\ Cost \in Nat \ {0}
      /\ MsPerSec \in Nat
  BY ConstantTypes
<1>1. Charged \in Int
  BY <1>0 DEF Charged, TypeOK
<1>2. now \in Nat /\ now' \in Nat /\ now <= now'
  BY DEF TypeOK, Next, Work, Clock, Tick, AlarmThread, SignalNextDeadline, Sleep,
         AlarmSleep, Sender, Proceed, Wait, Write, WriteError, Spurious, vars,
         alarmVars
<1>3. /\ Capacity(BootMS, now) <= Capacity(BootMS, now')
      /\ Capacity(BootMS, now) \in Int /\ Capacity(BootMS, now') \in Int
  <2>1. BootMS \in Int /\ now \in Int /\ now' \in Int
    BY <1>0, <1>2
  <2> QED BY <1>2, <2>1, CapacityType, CapacityMonotone
<1>4. CASE SignalNextDeadline
  <2>1. Charged' = Charged + BytesToSend /\ BytesToSend \in {0, Cost}
    BY <1>4, ChargedBySignal DEF TypeOK
  <2>2. alarm' = "sleep"
    BY <1>4 DEF SignalNextDeadline
  <2>3. Charged <= Capacity(BootMS, now)
    <3>1. CASE deadline = 0
      <4>1. 0 <= Capacity(BootMS, now)
        BY <1>0, CapacityType, CapacityAdds DEF TypeOK
      <4> QED BY <3>1, <4>1 DEF Accounting
    <3>2. CASE deadline # 0
      <4>1. Charged = Capacity(epoch, deadline) + runOff /\ epoch > BootMS
        BY <3>2 DEF Accounting
      <4>2. /\ deadline \in Nat /\ deadline <= now
            /\ epoch \in Nat /\ runOff \in 0 .. (maxBytes - 1)
        BY <1>4 DEF SignalNextDeadline, ChargedInTime, TypeOK
      <4>3. /\ epoch \in Int /\ deadline \in Int /\ now \in Int /\ BootMS \in Int
            /\ BootMS + 1 \in Int /\ BootMS + 1 <= epoch /\ deadline <= now
        BY <1>0, <1>2, <4>1, <4>2
      <4>4. /\ Capacity(epoch, deadline) \in Int /\ Capacity(epoch, now) \in Int
            /\ Capacity(BootMS + 1, now) \in Int
        BY <4>3, CapacityType
      <4>5. Capacity(epoch, deadline) <= Capacity(epoch, now)
        BY <4>3, CapacityMonotone
      <4>6. Capacity(epoch, now) <= Capacity(BootMS + 1, now)
        BY <4>3, CapacityMonotone
      <4>7. maxBytes + Capacity(BootMS + 1, now) = Capacity(BootMS, now)
        BY <4>3, CapacityType, CapacityAdds
      <4> QED BY <1>0, <1>3, <4>1, <4>2, <4>4, <4>5, <4>6, <4>7
    <3> QED BY <3>1, <3>2
  <2>4. Charged' <= Capacity(BootMS, now') + Cost
    BY <1>0, <1>1, <1>3, <2>1, <2>3
  <2> QED BY <2>2, <2>4 DEF ChargedInTime
<1>5. CASE ~SignalNextDeadline
  <2>1. Charged' = Charged /\ deadline' = deadline
    BY <1>5, ChargedSteady
  <2>2. alarm' = "signal" => deadline' <= now'
    BY <1>2, <1>5, <2>1
       DEF TypeOK, ChargedInTime, Next, Work, Clock, Tick, AlarmThread, Sleep,
           AlarmSleep, Sender, Proceed, Wait, Write, WriteError, Spurious, vars,
           alarmVars
  <2>3. Charged' <= Capacity(BootMS, now') + Cost
    BY <1>0, <1>1, <1>3, <2>1 DEF ChargedInTime
  <2> QED BY <2>2, <2>3 DEF ChargedInTime
<1> QED
  BY <1>4, <1>5

\* A sender falls asleep only on a debt, and clearing the debt wakes it.
LEMMA NoLostWakeupStep == TypeOK /\ NoLostWakeup /\ [Next]_vars => NoLostWakeup'
<1> SUFFICES ASSUME TypeOK, NoLostWakeup, [Next]_vars PROVE NoLostWakeup'
  OBVIOUS
<1>0. Cost > 0 /\ Cost \in Nat /\ Int32(MsPerSec * BUF_SIZE) = Cost
  BY ConstantTypes
<1> USE DEF TypeOK, NoLostWakeup
<1>1. CASE Clock
  BY <1>1 DEF Clock, Tick, blastVars, schedVars
<1>2. CASE SignalNextDeadline
  BY <1>0, <1>2 DEF SignalNextDeadline, WakeAll
<1>3. CASE Sleep
  BY <1>3 DEF Sleep, AlarmSleep, blastVars, schedVars
<1>4. ASSUME NEW t \in Thread, Proceed(t) PROVE NoLostWakeup'
  BY <1>0, <1>4 DEF Proceed, InWaitMyTurn, Awake, Goto
<1>5. ASSUME NEW t \in Thread, Wait(t) PROVE NoLostWakeup'
  BY <1>0, <1>5 DEF Wait, InWaitMyTurn, canSafelySend, Goto, schedVars
<1>6. ASSUME NEW t \in Thread, Write(t) PROVE NoLostWakeup'
  BY <1>6 DEF Write, SendDone, Goto, schedVars
<1>7. ASSUME NEW t \in Thread, WriteError(t) PROVE NoLostWakeup'
  BY <1>7 DEF WriteError, SendFails, Goto, schedVars
<1>8. ASSUME NEW t \in Thread, Spurious(t) PROVE NoLostWakeup'
  BY <1>8 DEF Spurious, SpuriousWakeup, schedVars
<1>9. CASE UNCHANGED vars
  BY <1>9 DEF vars, blastVars, schedVars
<1> QED
  BY <1>1, <1>2, <1>3, <1>4, <1>5, <1>6, <1>7, <1>8, <1>9
     DEF Next, Work, AlarmThread, Sender

-----------------------------------------------------------------------------

\* Every reachable state satisfies the inductive invariant.
THEOREM Invariance == Spec => []Inv
<1>1. Init => Inv
  BY InitInv
<1>2. Inv /\ [Next]_vars => Inv'
  BY TypeStep, AccountingStep, ChargedInTimeStep, NoLostWakeupStep DEF Inv
<1> QED
  BY <1>1, <1>2, PTL DEF Spec

\* The types: in particular runOff stays a fraction of a millisecond and
\* BytesToSend is the cost of at most one buffer, in ints that never overflow.
THEOREM TypeCorrect == Spec => []TypeOK
<1>1. Inv => TypeOK
  BY DEF Inv
<1> QED
  BY <1>1, Invariance, PTL

\* No byte is lost or charged twice between waitMyTurn and the deadlines.
THEOREM AccountsBalance == Spec => []Accounting
<1>1. Inv => Accounting
  BY DEF Inv
<1> QED
  BY <1>1, Invariance, PTL

\* No sender sleeps on a link that nobody owes anything on.
THEOREM WakeupsKept == Spec => []NoLostWakeup
<1>1. Inv => NoLostWakeup
  BY DEF Inv
<1> QED
  BY <1>1, Invariance, PTL

\* The rate follows from the charges.
LEMMA InvRate == Inv => LongRunRate
<1> SUFFICES ASSUME Inv PROVE LongRunRate
  OBVIOUS
<1>0. /\ maxBytes \in Nat /\ BootMS \in Nat /\ Cost \in Nat /\ MsPerSec \in Nat
  BY ConstantTypes
<1>1. /\ MsPerSec * granted \in Int /\ Capacity(BootMS, now) \in Int
      /\ BytesToSend \in {0, Cost}
  BY <1>0, CapacityType, CapacityAdds DEF Inv, TypeOK
<1>2. MsPerSec * granted - BytesToSend <= Capacity(BootMS, now) + Cost
  BY DEF Inv, ChargedInTime, Charged
<1> QED
  BY <1>0, <1>1, <1>2 DEF LongRunRate

\* The rate limit, for any number of senders: granted bytes never exceed
\* maxBytes per second by more than two buffers.
THEOREM RateKept == Spec => []LongRunRate
  BY Invariance, InvRate, PTL

\* The scheduler implements a token bucket that starts with two buffers' worth.
THEOREM TokenBucketImplemented == Spec => ImplementsTokenBucket
<1> DEFINE T == Capacity(BootMS, now) + 2 * Cost - MsPerSec * granted
<1>0. /\ maxBytes \in Nat /\ BootMS \in Nat /\ Cost \in Nat
      /\ MsPerSec \in Nat /\ BUF_SIZE \in Nat
  BY ConstantTypes
<1>1. Init => Bucket!TokenInit
  <2>1. Capacity(BootMS, BootMS) = 0 /\ MsPerSec * 0 = 0
    BY <1>0, CapacityType, CapacityAdds
  <2> QED BY <1>0, <2>1 DEF Init, AlarmInit, Bucket!TokenInit
<1>2. Inv /\ LongRunRate' /\ [Next]_vars => [Bucket!Gain \/ Bucket!Grant]_T
  <2> SUFFICES ASSUME Inv, LongRunRate', [Next]_vars
               PROVE  [Bucket!Gain \/ Bucket!Grant]_T
    OBVIOUS
  <2>1. /\ now \in Nat /\ granted \in Nat
        /\ Capacity(BootMS, now) \in Int /\ MsPerSec * granted \in Int
    BY <1>0, CapacityType, CapacityAdds DEF Inv, TypeOK
  <2>2. CASE Clock
    <3>1. now' = now + 1 /\ granted' = granted
      BY <2>2 DEF Clock, Tick, schedVars
    <3>2. Capacity(BootMS, now + 1) = Capacity(BootMS, now) + maxBytes
      BY <1>0, <2>1, CapacityType, CapacityAdds
    <3>3. T' = T + maxBytes
      BY <1>0, <2>1, <3>1, <3>2
    <3> QED BY <3>3 DEF Bucket!Gain
  <2>3. ASSUME NEW t \in Thread, Proceed(t)
        PROVE  Bucket!Grant
    <3>1. now' = now /\ granted' = granted + BUF_SIZE
      BY <2>3 DEF Proceed, alarmVars
    <3>2. MsPerSec * (granted + BUF_SIZE) = MsPerSec * granted + Cost
      BY <1>0, <2>1 DEF Cost
    <3>3. T' = T - Cost
      BY <1>0, <2>1, <3>1, <3>2
    <3>4. T' >= 0 /\ T \in Int
      <4>1. MsPerSec * granted' <= Capacity(BootMS, now') + 2 * Cost
        BY DEF LongRunRate
      <4>2. Capacity(BootMS, now') \in Int /\ MsPerSec * granted' \in Int
        BY <1>0, <2>1, <3>1, CapacityType, CapacityAdds
      <4> QED BY <1>0, <2>1, <4>1, <4>2
    <3>5. T >= Cost
      <4> HIDE DEF T
      <4> QED BY <1>0, <3>3, <3>4
    <3> QED BY <3>3, <3>5 DEF Bucket!Grant
  <2>4. CASE UNCHANGED <<now, granted>>
    BY <2>4
  <2> QED
    BY <2>2, <2>3, <2>4
       DEF Next, Work, AlarmThread, Sender, SignalNextDeadline, Sleep, AlarmSleep,
           Wait, Write, WriteError, Spurious, vars, alarmVars, schedVars
<1> QED
  BY <1>1, <1>2, Invariance, RateKept, PTL
     DEF Spec, ImplementsTokenBucket, Bucket!TokenSpec

=============================================================================
