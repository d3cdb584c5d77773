--------------------------- MODULE Tasks104Proofs ---------------------------
(***************************************************************************)
(* The timers of a cs104 connection are in time: for all settings of k, w, *)
(* t1, t2 and t3, for every capacity of the queues, and however late the   *)
(* driver, held up by them, takes a tick.                                  *)
(***************************************************************************)
EXTENDS Tasks104, TLAPS

\* The driver is in its loop.
Running == driver \in {"select", "busy"}

Age == [unackRcv : Int, idle : Int, testFr : Int]

\* A new TESTFR act is to be sent before the next select.
Probing == \E i \in 1 .. Len(todo) : todo[i] = "probe"

\* What the driver waits for: to send the TESTFR act comes last, and never with an
\* I-frame to be numbered.
Steps == {"raw", "pack", "number", "probe"}
TodoTypes ==
    /\ driver \in {"select", "busy", "left", "returned"}
    /\ todo \in Seq(Steps)
    /\ driver # "busy" => todo = <<>>
    /\ \A i \in 1 .. Len(todo) :
         todo[i] = "probe" => i = Len(todo) /\ \A j \in 1 .. Len(todo) : todo[j] # "number"

\* What the argument needs of the types.
TaskTypes ==
    /\ set \in Settings
    /\ age \in Age
    /\ unacked \in Nat /\ due \in BOOLEAN /\ late \in 0 .. MaxLate
    /\ quiet \in Nat /\ owed \in Nat
    /\ TodoTypes

\* n ticks were taken since a stamp of age a: one of them may have been due before the
\* stamp was taken, and the one that is due now is not taken yet.
CountedAt(n, a, isDue, by, top) ==
    \/ a > top
    \/ ~isDue /\ n <= a + 1
    \/ isDue /\ (n = 0 \/ n <= a - by)
Counted(n, a) == CountedAt(n, a, due, late, Longest + MaxLate)

\* The timer of the acknowledgement.
AckTimer ==
    /\ unacked = 0 => owed = 0
    /\ unacked > 0 => /\ age.unackRcv >= 0
                      /\ Counted(owed, age.unackRcv)
                      /\ owed <= set.t2 + 1

\* The timers of the keep-alive.  Before it, the ticks since the last frame are those
\* since the line was last idle; after it they are m more than those since it was sent,
\* and no other is sent.
SilenceTimer ==
    /\ age.testFr = Never =>
         /\ Counted(quiet, age.idle)
         /\ quiet <= set.t3 + IF Probing THEN 2 ELSE 1
    /\ age.testFr # Never =>
         /\ ~Probing /\ age.testFr >= age.idle
         /\ \E m \in 0 .. set.t3 + 2 :
              m <= quiet /\ quiet - m <= set.t1 + 1 /\ Counted(quiet - m, age.testFr)

\* The inductive invariant.
TimerInv ==
    /\ TaskTypes
    /\ Running => /\ age.idle >= 0 /\ age.testFr >= Never
                  /\ AckTimer
                  /\ set.t1 <= set.t3 => SilenceTimer

-----------------------------------------------------------------------------
\* How late a tick may be taken is a number.
LEMMA LateIsNat == MaxLate \in Nat /\ 0 \in 0 .. MaxLate
<1>1. MaxLate \in Nat
  BY TasksAssumption
<1> QED
  BY <1>1

\* The longest of the three times is one of them.
LEMMA LongestIs ==
    ASSUME set \in Settings
    PROVE  /\ {set.k, set.w, set.t1, set.t2, set.t3} \subseteq Nat \ {0}
           /\ Longest \in Nat
           /\ set.t1 <= Longest /\ set.t2 <= Longest /\ set.t3 <= Longest
<1> DEFINE t == {set.t1, set.t2, set.t3}
<1>1. {set.k, set.w, set.t1, set.t2, set.t3} \subseteq Nat \ {0}
  BY TasksAssumption
<1>2. \E x \in t : \A y \in t : y <= x
  <2>1. CASE set.t2 <= set.t1 /\ set.t3 <= set.t1
    BY <1>1, <2>1
  <2>2. CASE set.t1 <= set.t2 /\ set.t3 <= set.t2
    BY <1>1, <2>2
  <2>3. CASE set.t1 <= set.t3 /\ set.t2 <= set.t3
    BY <1>1, <2>3
  <2> QED
    BY <1>1, <2>1, <2>2, <2>3
<1>3. Longest \in t /\ \A y \in t : y <= Longest
  BY <1>2 DEF Longest
<1> QED
  BY <1>1, <1>3

\* One more tick becomes due: everything is a tick older.
LEMMA AdvanceCounted ==
    ASSUME TaskTypes, Advance, NEW n \in Nat, NEW a \in Int, a >= 0, Counted(n, a),
           NEW b, b = Older(a)
    PROVE  b \in Int /\ b >= 0 /\ CountedAt(n, b, due', late', Longest' + MaxLate)
<1> DEFINE m == Longest + MaxLate
<1>1. /\ due' = TRUE /\ late' = (IF due THEN late + 1 ELSE 0) /\ set' = set
      /\ late \in Nat /\ m \in Int
  BY LongestIs, TasksAssumption DEF Advance, TaskTypes
<1>2. b = IF a > m THEN a ELSE a + 1
  BY DEF Older, Never
<1>3. a > m \/ (~due /\ n <= a + 1) \/ (due /\ (n = 0 \/ n <= a - late))
  BY DEF Counted, CountedAt
<1>4. Longest' + MaxLate = m
  BY <1>1 DEF Longest
<1> HIDE DEF m
<1>5. b \in Int /\ b >= 0 /\ (b > m \/ n = 0 \/ n <= b - late')
  <2>1. CASE a > m
    BY <1>2, <2>1
  <2>2. CASE ~ a > m /\ ~due /\ n <= a + 1
    BY <1>1, <1>2, <2>2
  <2>3. CASE ~ a > m /\ due /\ (n = 0 \/ n <= a - late)
    BY <1>1, <1>2, <2>3
  <2> QED
    BY <1>3, <2>1, <2>2, <2>3
<1> QED
  BY <1>1, <1>4, <1>5 DEF CountedAt

\* A tick is taken: it is counted.
LEMMA TickCounted ==
    ASSUME TaskTypes, due, NEW n \in Nat, NEW a \in Int, a >= 0, Counted(n, a)
    PROVE  CountedAt(n + 1, a, FALSE, 0, Longest + MaxLate)
<1>1. a > Longest + MaxLate \/ n = 0 \/ n <= a - late
  BY DEF Counted, CountedAt
<1>2. late \in Nat
  BY DEF TaskTypes
<1> QED
  BY <1>1, <1>2 DEF CountedAt

\* When a tick is taken at which a time of t ticks has not elapsed, fewer than t
\* earlier ones were counted.
LEMMA NotLapsed ==
    ASSUME TaskTypes, due, NEW n \in Nat, NEW a \in Int, a >= 0, Counted(n, a),
           NEW t \in Nat, t <= Longest, a - late <= t
    PROVE  n <= t
<1>1. late \in 0 .. MaxLate /\ MaxLate \in Nat /\ Longest \in Nat
  BY LongestIs, LateIsNat DEF TaskTypes
<1> QED
  BY <1>1 DEF Counted, CountedAt

-----------------------------------------------------------------------------
\* The driver goes on with what is left.
LEMMA GoesOn ==
    ASSUME TodoTypes, todo # <<>>, Continue(Tail(todo))
    PROVE  /\ TodoTypes' /\ Running /\ Running'
           /\ Head(todo) = "probe" => ~Probing'
           /\ Head(todo) # "probe" => (Probing' <=> Probing)
<1> DEFINE t == Tail(todo)
           h == Head(todo)
           n == Len(todo)
<1>1. /\ n \in Nat \ {0} /\ h = todo[1] /\ t \in Seq(Steps) /\ Len(t) = n - 1
      /\ \A i \in 1 .. n - 1 : t[i] = todo[i + 1]
  BY DEF TodoTypes
<1>2. todo' = t /\ driver' = (IF t = <<>> THEN "select" ELSE "busy")
  BY DEF Continue
<1> HIDE DEF t, h, n
<1>3. /\ driver = "busy" /\ n = Len(todo)
      /\ \A i \in 1 .. n : todo[i] = "probe" => i = n /\ \A j \in 1 .. n : todo[j] # "number"
  BY DEF TodoTypes, n
<1>4. \A i \in 1 .. Len(t) : i \in 1 .. n - 1 /\ i + 1 \in 1 .. n
  BY <1>1
<1>5. \A i \in 1 .. Len(t) :
         t[i] = "probe" => i = Len(t) /\ \A j \in 1 .. Len(t) : t[j] # "number"
  BY <1>1, <1>3, <1>4
<1>6. TodoTypes' /\ Running /\ Running'
  BY <1>1, <1>2, <1>3, <1>5 DEF TodoTypes, Running
<1>7. h = "probe" => ~Probing'
  <2> SUFFICES ASSUME h = "probe" PROVE ~Probing'
    OBVIOUS
  <2>1. n = 1
    BY <1>1, <1>3
  <2> QED
    BY <1>1, <1>2, <2>1 DEF Probing
<1>8. h # "probe" => (Probing' <=> Probing)
  <2> SUFFICES ASSUME h # "probe" PROVE Probing' <=> Probing
    OBVIOUS
  <2>1. ASSUME NEW i \in 1 .. Len(t), t[i] = "probe" PROVE Probing
    BY <1>1, <1>3, <1>4, <2>1 DEF Probing
  <2>2. ASSUME NEW i \in 1 .. n, todo[i] = "probe" PROVE Probing'
    <3>1. i # 1 /\ i - 1 \in 1 .. Len(t) /\ t[i - 1] = "probe"
      BY <1>1, <2>2
    <3> QED
      BY <1>2, <3>1 DEF Probing
  <2> QED
    BY <1>2, <1>3, <2>1, <2>2 DEF Probing
<1> QED
  BY <1>6, <1>7, <1>8 DEF h

\* It comes back to the select, or has to wait for something other than the probe.
LEMMA Steps0 == Continue(<<>>) => TodoTypes' /\ Running' /\ ~Probing'
BY DEF Continue, TodoTypes, Running, Probing

\* So it does with one more step to take,
LEMMA Steps1 ==
    ASSUME NEW x \in {"raw", "number"}, Continue(<<x>>)
    PROVE  TodoTypes' /\ Running' /\ ~Probing'
<1>1. todo' = <<x>> /\ driver' = "busy"
  BY DEF Continue
<1> QED
  BY <1>1 DEF TodoTypes, Running, Probing, Steps

\* and with two.
LEMMA Steps2 == Continue(<<"pack", "number">>) => TodoTypes' /\ Running' /\ ~Probing'
<1> SUFFICES ASSUME Continue(<<"pack", "number">>)
             PROVE  TodoTypes' /\ Running' /\ ~Probing'
  OBVIOUS
<1>1. todo' = <<"pack", "number">> /\ driver' = "busy"
  BY DEF Continue
<1> QED
  BY <1>1 DEF TodoTypes, Running, Probing, Steps

\* What a tick leaves to be done.
LEMMA StepsTick ==
    ASSUME NEW ack \in BOOLEAN, NEW probe \in BOOLEAN,
           Continue((IF ack THEN <<"raw">> ELSE <<>>)
                    \o IF probe THEN <<"raw", "probe">> ELSE <<>>)
    PROVE  TodoTypes' /\ Running' /\ (Probing' <=> probe)
<1>1. CASE ack /\ probe
  <2> DEFINE t == <<"raw">> \o <<"raw", "probe">>
  <2>1. t \in Seq(Steps) /\ Len(t) = 3 /\ t[1] = "raw" /\ t[2] = "raw" /\ t[3] = "probe"
    BY DEF Steps
  <2>2. todo' = t /\ driver' = (IF t = <<>> THEN "select" ELSE "busy")
    BY <1>1 DEF Continue
  <2> HIDE DEF t
  <2>3. todo' = t /\ driver' = "busy"
    BY <2>1, <2>2
  <2>4. \A i \in 1 .. Len(t) : t[i] # "number" /\ (t[i] = "probe" => i = Len(t))
    <3>1. \A i \in 1 .. Len(t) : i = 1 \/ i = 2 \/ i = 3
      BY <2>1
    <3> QED
      BY <2>1, <3>1
  <2>5. TodoTypes' /\ Running'
    BY <2>1, <2>3, <2>4 DEF TodoTypes, Running
  <2>6. Probing'
    BY <2>1, <2>3 DEF Probing
  <2> QED
    BY <1>1, <2>5, <2>6
<1>2. CASE ack /\ ~probe
  <2>1. todo' = <<"raw">> /\ driver' = "busy"
    BY <1>2 DEF Continue
  <2> QED
    BY <1>2, <2>1 DEF TodoTypes, Running, Probing, Steps
<1>3. CASE ~ack /\ probe
  <2>1. todo' = <<"raw", "probe">> /\ driver' = "busy"
    BY <1>3 DEF Continue
  <2> QED
    BY <1>3, <2>1 DEF TodoTypes, Running, Probing, Steps
<1>4. CASE ~ack /\ ~probe
  <2>1. todo' = <<>> /\ driver' = "select"
    BY <1>4 DEF Continue
  <2> QED
    BY <1>4, <2>1 DEF TodoTypes, Running, Probing, Steps
<1> QED
  BY <1>1, <1>2, <1>3, <1>4
-----------------------------------------------------------------------------
\* The invariant holds initially.
LEMMA InitTimer == Init => TimerInv
<1> SUFFICES ASSUME Init PROVE TimerInv
  OBVIOUS
<1>1. TaskTypes
  <2>1. TodoTypes
    BY DEF Init, TodoTypes
  <2>2. age \in Age
    BY DEF Init, Age, Never
  <2>3. due \in BOOLEAN
    BY DEF Init
  <2>4. set \in Settings /\ unacked \in Nat /\ late \in 0 .. MaxLate /\ quiet \in Nat /\ owed \in Nat
    BY LateIsNat DEF Init
  <2> QED
    BY <2>1, <2>2, <2>3, <2>4 DEF TaskTypes
<1>2. ~Probing
  BY DEF Init, Probing
<1> QED
  BY <1>1, <1>2, LongestIs DEF Init, TimerInv, AckTimer, SilenceTimer, Counted, CountedAt, Never

\* It holds as long as no timer is touched.
LEMMA SameTimers ==
    ASSUME TimerInv, UNCHANGED <<set, unacked, age, clock, past>>,
           TodoTypes', Running' => Running, Probing' <=> Probing
    PROVE  TimerInv'
<1>1. UNCHANGED <<set, unacked, age, due, late, quiet, owed>>
  BY DEF clock, past
<1>2. \A n, a : Counted(n, a)' <=> Counted(n, a)
  BY <1>1 DEF Counted, CountedAt, Longest
<1> QED
  BY <1>1, <1>2 DEF TimerInv, TaskTypes, AckTimer, SilenceTimer

\* Nothing is asked of a driver that has left its loop.
LEMMA LeaveTimer ==
    ASSUME TimerInv, Leave, UNCHANGED set
    PROVE  TimerInv'
<1>1. age' \in Age
  <2>1. age' = [s \in DOMAIN age |-> Never] /\ age \in Age
    BY DEF TimerInv, TaskTypes, Leave
  <2>2. DOMAIN age = {"unackRcv", "idle", "testFr"}
    BY <2>1 DEF Age
  <2> QED
    BY <2>1, <2>2 DEF Age, Never
<1>2. TodoTypes' /\ ~Running'
  BY DEF Leave, TodoTypes, Running
<1> QED
  <2>1. due' \in BOOLEAN
    BY DEF Leave
  <2>2. (set \in Settings /\ unacked \in Nat /\ late \in 0 .. MaxLate
           /\ quiet \in Nat /\ owed \in Nat)'
    BY LateIsNat DEF Leave, TimerInv, TaskTypes
  <2> QED
    BY <1>1, <1>2, <2>1, <2>2 DEF TimerInv, TaskTypes

\* One more tick becomes due.
LEMMA AdvanceTimer ==
    ASSUME TimerInv, Advance
    PROVE  TimerInv'
<1>1. /\ UNCHANGED <<set, driver, todo, unacked, quiet, owed>> /\ Running
      /\ due' = TRUE /\ late' = (IF due THEN late + 1 ELSE 0)
      /\ due => late < MaxLate
      /\ age' = [s \in DOMAIN age |-> Older(age[s])]
  BY DEF Advance, past, Running
<1>2. /\ TaskTypes /\ age.idle >= 0 /\ age.testFr >= Never /\ AckTimer
      /\ set.t1 <= set.t3 => SilenceTimer
  BY <1>1 DEF TimerInv
<1>3. /\ age \in Age /\ DOMAIN age = {"unackRcv", "idle", "testFr"}
      /\ age.unackRcv \in Int /\ age.idle \in Int /\ age.testFr \in Int
  BY <1>2 DEF TaskTypes, Age
<1>4. /\ age'.unackRcv = Older(age.unackRcv) /\ age'.idle = Older(age.idle)
      /\ age'.testFr = Older(age.testFr)
      /\ DOMAIN age' = {"unackRcv", "idle", "testFr"}
  BY <1>1, <1>3
<1>5. \A a \in Int : /\ Older(a) = (IF a = Never \/ a > Longest + MaxLate THEN a ELSE a + 1)
                     /\ Older(a) \in Int
  BY <1>2, LongestIs, LateIsNat DEF Older, TaskTypes
<1>6. TaskTypes'
  <2>1. age' \in Age
    BY <1>1, <1>3, <1>4, <1>5 DEF Age
  <2>2. late' \in 0 .. MaxLate
    BY <1>1, <1>2, LateIsNat DEF TaskTypes
  <2>3. due' \in BOOLEAN
    BY <1>1
  <2>4. TodoTypes'
    BY <1>1, <1>2 DEF TaskTypes, TodoTypes
  <2> QED
    BY <1>1, <1>2, <2>1, <2>2, <2>3, <2>4 DEF TaskTypes
<1>7. AckTimer'
  <2> SUFFICES ASSUME unacked > 0 PROVE AckTimer'
    BY <1>1, <1>2 DEF AckTimer, TaskTypes
  <2> DEFINE a == age.unackRcv
             b == age'.unackRcv
  <2>1. /\ a \in Int /\ a >= 0 /\ owed \in Nat /\ owed <= set.t2 + 1 /\ Counted(owed, a)
        /\ b = Older(a)
    BY <1>2, <1>3, <1>4 DEF AckTimer, TaskTypes
  <2> HIDE DEF a, b
  <2>2. b \in Int /\ b >= 0 /\ CountedAt(owed, b, due', late', Longest' + MaxLate)
    BY <1>2, <2>1, AdvanceCounted
  <2>3. Counted(owed, age.unackRcv)'
    BY <1>1, <2>2 DEF b, Counted
  <2> QED
    BY <1>1, <2>1, <2>2, <2>3 DEF AckTimer, b
<1>8. age'.idle >= 0 /\ age'.testFr >= Never
      /\ (age'.testFr = Never <=> age.testFr = Never)
      /\ (age.testFr >= age.idle => age'.testFr >= age'.idle)
  BY <1>2, <1>3, <1>4, <1>5, LongestIs, LateIsNat DEF Never, TaskTypes
<1>9. ASSUME set.t1 <= set.t3
      PROVE  SilenceTimer'
  <2>1. SilenceTimer /\ (Probing' <=> Probing)
    BY <1>1, <1>2, <1>9 DEF Probing
  <2>2. CASE age.testFr = Never
    <3> DEFINE a == age.idle
               b == age'.idle
    <3>1. /\ a \in Int /\ a >= 0 /\ quiet \in Nat /\ Counted(quiet, a) /\ b = Older(a)
          /\ quiet <= set.t3 + IF Probing THEN 2 ELSE 1
      BY <1>2, <1>3, <1>4, <2>1, <2>2 DEF SilenceTimer, TaskTypes
    <3> HIDE DEF a, b
    <3>2. CountedAt(quiet, b, due', late', Longest' + MaxLate)
      BY <1>2, <3>1, AdvanceCounted
    <3>3. Counted(quiet, age.idle)'
      BY <1>1, <3>2 DEF b, Counted
    <3> QED
      BY <1>1, <1>8, <2>1, <2>2, <3>1, <3>3 DEF SilenceTimer
  <2>3. CASE age.testFr # Never
    <3> DEFINE a == age.testFr
               b == age'.testFr
    <3>1. PICK m \in 0 .. set.t3 + 2 :
            m <= quiet /\ quiet - m <= set.t1 + 1 /\ Counted(quiet - m, a)
      BY <2>1, <2>3 DEF SilenceTimer
    <3>2. /\ a \in Int /\ a >= 0 /\ b = Older(a)
          /\ ~Probing /\ age.testFr >= age.idle
      BY <1>2, <1>3, <1>4, <2>1, <2>3 DEF SilenceTimer, Never
    <3> DEFINE n == quiet - m
    <3>3. n \in Nat
      BY <1>2, <3>1, LongestIs DEF TaskTypes
    <3>4. Counted(n, a)
      BY <3>1
    <3> HIDE DEF a, b, n
    <3>5. CountedAt(n, b, due', late', Longest' + MaxLate)
      BY <1>2, <3>2, <3>3, <3>4, AdvanceCounted
    <3>6. Counted(quiet - m, age.testFr)'
      BY <1>1, <3>5 DEF b, n, Counted
    <3>7. (~Probing /\ age.testFr >= age.idle)'
      BY <1>8, <2>1, <3>2
    <3> QED
      BY <1>1, <1>8, <2>3, <3>1, <3>6, <3>7 DEF SilenceTimer
  <2> QED
    BY <2>2, <2>3
<1> QED
  BY <1>1, <1>6, <1>7, <1>8, <1>9 DEF TimerInv

\* What was received is acknowledged.
LEMMA AcknowledgedTimer ==
    ASSUME TimerInv, Running, Acknowledged, UNCHANGED <<set, clock, quiet>>,
           TodoTypes', Running', Probing' <=> Probing
    PROVE  TimerInv'
<1>1. /\ unacked' = 0 /\ owed' = 0 /\ age' = [age EXCEPT !.unackRcv = Never]
      /\ UNCHANGED <<set, due, late, quiet>>
  BY DEF Acknowledged, clock
<1>2. /\ TaskTypes /\ age.idle >= 0 /\ age.testFr >= Never
      /\ set.t1 <= set.t3 => SilenceTimer
  BY DEF TimerInv
<1>3. age' \in Age /\ age'.idle = age.idle /\ age'.testFr = age.testFr
  BY <1>1, <1>2 DEF TaskTypes, Age, Never
<1>4. TaskTypes'
  BY <1>1, <1>2, <1>3 DEF TaskTypes
<1>5. AckTimer'
  BY <1>1 DEF AckTimer
<1>6. \A n, a : Counted(n, a)' <=> Counted(n, a)
  BY <1>1 DEF Counted, CountedAt, Longest
<1>7. set.t1 <= set.t3 => SilenceTimer'
  BY <1>1, <1>2, <1>3, <1>6 DEF SilenceTimer
<1> QED
  BY <1>1, <1>2, <1>3, <1>4, <1>5, <1>7 DEF TimerInv

\* An ASDU goes out, with an acknowledgement.
LEMMA SendTimer ==
    ASSUME TimerInv, SendAsdu
    PROVE  TimerInv'
<1>1. /\ driver = "select" /\ Acknowledged /\ Continue(<<"raw">>)
      /\ UNCHANGED <<set, clock, quiet>>
  BY DEF SendAsdu, AtSelect
<1>2. ~Probing /\ Running
  BY <1>1 DEF TimerInv, TaskTypes, TodoTypes, Probing, Running
<1> QED
  BY <1>1, <1>2, Steps1, AcknowledgedTimer

\* A frame is taken: it restarts t3, and TESTFR con stops the wait for it.
LEMMA TakeTimer ==
    ASSUME TimerInv, TakeFrame
    PROVE  TimerInv'
<1>1. /\ driver = "select" /\ quiet' = 0 /\ UNCHANGED <<set, unacked, owed, due, late>>
      /\ \/ age' = [age EXCEPT !.idle = 0, !.testFr = Never]
         \/ age' = [age EXCEPT !.idle = 0]
      /\ \/ Continue(<<>>)
         \/ Continue(<<"pack", "number">>)
         \/ Continue(<<"number">>)
  BY DEF TakeFrame, AtSelect, clock
<1>2. TaskTypes /\ age.testFr >= Never /\ AckTimer
  BY <1>1 DEF TimerInv, Running
<1>3. /\ age' \in Age /\ age'.idle = 0 /\ age'.unackRcv = age.unackRcv
      /\ age'.testFr = Never \/ age'.testFr = age.testFr
  <2>1. age \in Age /\ Never \in Int /\ 0 \in Int
    BY <1>2 DEF TaskTypes, Never
  <2>2. CASE age' = [age EXCEPT !.idle = 0, !.testFr = Never]
    BY <2>1, <2>2 DEF Age
  <2>3. CASE age' = [age EXCEPT !.idle = 0]
    BY <2>1, <2>3 DEF Age
  <2> QED
    BY <1>1, <2>2, <2>3
<1>4. TodoTypes' /\ Running' /\ ~Probing'
  BY <1>1, Steps0, Steps1, Steps2
<1>5. TaskTypes'
  BY <1>1, <1>2, <1>3, <1>4 DEF TaskTypes
<1>6. \A n, a : Counted(n, a)' <=> Counted(n, a)
  BY <1>1 DEF Counted, CountedAt, Longest
<1>7. AckTimer'
  BY <1>1, <1>2, <1>3, <1>6 DEF AckTimer
<1>8. \A a \in Int : a >= 0 => Counted(0, a)
  BY <1>2 DEF Counted, CountedAt, TaskTypes
<1>9. set.t1 \in Nat /\ set.t3 \in Nat
  BY <1>2, LongestIs DEF TaskTypes
<1>10. SilenceTimer'
  <2>1. CASE age'.testFr = Never
    BY <1>1, <1>3, <1>4, <1>6, <1>8, <1>9, <2>1 DEF SilenceTimer
  <2>2. CASE age'.testFr # Never
    <3>1. age'.testFr \in Int /\ age'.testFr >= 0
      BY <1>2, <1>3, <2>2 DEF Age, Never, TaskTypes
    <3>2. 0 \in 0 .. set'.t3 + 2 /\ 0 <= quiet' /\ quiet' - 0 <= set'.t1 + 1
      BY <1>1, <1>9
    <3>3. Counted(quiet - 0, age.testFr)'
      BY <1>1, <1>6, <1>8, <3>1
    <3> QED
      BY <1>3, <1>4, <2>2, <3>1, <3>2, <3>3 DEF SilenceTimer
  <2> QED
    BY <2>1, <2>2
<1> QED
  BY <1>2, <1>3, <1>5, <1>7, <1>10 DEF TimerInv, Never

\* An I-frame is numbered: it begins a run, goes on with one, or ends it.
LEMMA NumberTimer ==
    ASSUME TimerInv, Number
    PROVE  TimerInv'
<1>1. /\ todo # <<>> /\ Head(todo) = "number" /\ UNCHANGED <<set, clock, quiet>>
      /\ \/ Acknowledged /\ Continue(<<"raw">>)
         \/ age' = Numbered /\ unacked' = unacked + 1 /\ UNCHANGED owed /\ Continue(<<>>)
  BY DEF Number
<1>2. TodoTypes /\ Running /\ ~Probing
  <2>1. TodoTypes /\ driver = "busy"
    BY <1>1 DEF TimerInv, TaskTypes, TodoTypes
  <2>2. 1 \in 1 .. Len(todo) /\ todo[1] = "number"
    BY <1>1, <2>1 DEF TodoTypes
  <2> QED
    BY <2>1, <2>2 DEF TodoTypes, Running, Probing
<1>3. CASE Acknowledged /\ Continue(<<"raw">>)
  BY <1>1, <1>2, <1>3, Steps1, AcknowledgedTimer
<1>4. CASE age' = Numbered /\ unacked' = unacked + 1 /\ UNCHANGED owed /\ Continue(<<>>)
  <2>1. TodoTypes' /\ Running' /\ ~Probing'
    BY <1>4, Steps0
  <2>2. /\ TaskTypes /\ age.idle >= 0 /\ age.testFr >= Never /\ AckTimer
        /\ set.t1 <= set.t3 => SilenceTimer
    BY <1>2 DEF TimerInv
  <2>3. UNCHANGED <<set, due, late, quiet, owed>>
    BY <1>1, <1>4 DEF clock
  <2>4. /\ age' \in Age /\ age'.idle = age.idle /\ age'.testFr = age.testFr
        /\ age'.unackRcv = (IF unacked = 0 THEN 0 ELSE age.unackRcv)
    BY <1>4, <2>2 DEF Numbered, TaskTypes, Age
  <2>5. \A n, a : Counted(n, a)' <=> Counted(n, a)
    BY <2>3 DEF Counted, CountedAt, Longest
  <2>6. TaskTypes'
    BY <1>4, <2>1, <2>2, <2>3, <2>4 DEF TaskTypes
  <2>7. AckTimer'
    <3>1. unacked' > 0 /\ unacked \in Nat
      BY <1>4, <2>2 DEF TaskTypes
    <3>2. CASE unacked = 0
      <4>1. owed' = 0 /\ age'.unackRcv = 0 /\ Counted(0, 0) /\ set.t2 \in Nat
        BY <2>2, <2>3, <2>4, <3>2, LongestIs DEF AckTimer, Counted, CountedAt, TaskTypes
      <4> QED
        BY <2>3, <2>5, <3>1, <4>1 DEF AckTimer
    <3>3. CASE unacked # 0
      BY <2>2, <2>3, <2>4, <2>5, <3>1, <3>3 DEF AckTimer
    <3> QED
      BY <3>2, <3>3
  <2>8. set.t1 <= set.t3 => SilenceTimer'
    BY <1>2, <2>1, <2>2, <2>3, <2>4, <2>5 DEF SilenceTimer
  <2> QED
    BY <2>2, <2>3, <2>4, <2>6, <2>7, <2>8 DEF TimerInv
<1> QED
  BY <1>1, <1>3, <1>4

\* TESTFR act goes out, and t1 runs for it.
LEMMA ProbeTimer ==
    ASSUME TimerInv, Probe
    PROVE  TimerInv'
<1>1. /\ todo # <<>> /\ Head(todo) = "probe" /\ Continue(Tail(todo))
      /\ age' = [age EXCEPT !.testFr = 0, !.idle = 0]
      /\ UNCHANGED <<set, unacked, due, late, quiet, owed>>
  BY DEF Probe, clock, past
<1>2. TodoTypes /\ TaskTypes
  BY DEF TimerInv, TaskTypes
<1>3. TodoTypes' /\ Running /\ Running' /\ ~Probing'
  BY <1>1, <1>2, GoesOn
<1>4. Probing
  BY <1>1, <1>2 DEF TodoTypes, Probing
<1>5. AckTimer /\ age.testFr >= Never /\ (set.t1 <= set.t3 => SilenceTimer)
  BY <1>3 DEF TimerInv
<1>6. /\ age' \in Age /\ age'.idle = 0 /\ age'.testFr = 0
      /\ age'.unackRcv = age.unackRcv
  <2>1. age \in Age /\ 0 \in Int
    BY <1>2 DEF TaskTypes
  <2> QED
    BY <1>1, <2>1 DEF Age
<1>7. TaskTypes'
  BY <1>1, <1>2, <1>3, <1>6 DEF TaskTypes
<1>8. \A n, a : Counted(n, a)' <=> Counted(n, a)
  BY <1>1 DEF Counted, CountedAt, Longest
<1>9. AckTimer'
  BY <1>1, <1>5, <1>6, <1>8 DEF AckTimer
<1>10. ASSUME set.t1 <= set.t3
       PROVE  SilenceTimer'
  <2>1. age.testFr = Never /\ quiet <= set.t3 + 2 /\ quiet \in Nat
    BY <1>2, <1>4, <1>5, <1>10 DEF SilenceTimer, TaskTypes
  <2>2. set.t1 \in Nat /\ set.t3 \in Nat /\ Counted(0, 0)
    BY <1>2, LongestIs DEF TaskTypes, Counted, CountedAt
  <2>3. /\ quiet \in 0 .. set.t3 + 2 /\ quiet <= quiet
        /\ quiet - quiet = 0 /\ 0 <= set.t1 + 1
    BY <2>1, <2>2
  <2>4. (\E m \in 0 .. set.t3 + 2 :
           m <= quiet /\ quiet - m <= set.t1 + 1 /\ Counted(quiet - m, age.testFr))'
    BY <1>1, <1>6, <1>8, <2>2, <2>3
  <2> QED
    BY <1>3, <1>6, <2>4 DEF SilenceTimer, Never
<1> QED
  BY <1>1, <1>3, <1>6, <1>7, <1>9, <1>10 DEF TimerInv, Never

\* A tick at which no time has elapsed is counted; one at which t2 has, acknowledges;
\* one at which t3 has, while no TESTFR act is outstanding, leaves one to be sent.
LEMMA TickTimer ==
    ASSUME TimerInv, NEW early \in Early, Tick(early), ~T1(early)
    PROVE  TimerInv'
<1> DEFINE ack == AckDue(early)
           probe == Lapsed(age.idle, "t3", early)
<1>1. /\ driver = "select" /\ due /\ due' = FALSE /\ late' = 0 /\ set' = set
      /\ quiet' = quiet + 1
      /\ IF ack THEN Acknowledged
         ELSE /\ owed' = IF unacked > 0 THEN owed + 1 ELSE 0
              /\ UNCHANGED <<unacked, age>>
      /\ Continue((IF ack THEN <<"raw">> ELSE <<>>)
                  \o IF probe THEN <<"raw", "probe">> ELSE <<>>)
  BY DEF Tick, AtSelect
<1>2. /\ TaskTypes /\ age.idle >= 0 /\ age.testFr >= Never /\ AckTimer
      /\ set.t1 <= set.t3 => SilenceTimer
      /\ ~Probing
  BY <1>1 DEF TimerInv, Running, TaskTypes, TodoTypes, Probing
<1>3. TodoTypes' /\ Running' /\ (Probing' <=> probe)
  <2>1. ack \in BOOLEAN /\ probe \in BOOLEAN
    BY DEF AckDue, Lapsed
  <2> HIDE DEF ack, probe
  <2> QED
    BY <1>1, <2>1, StepsTick
<1> HIDE DEF ack, probe
<1>4. /\ age' \in Age /\ age'.idle = age.idle /\ age'.testFr = age.testFr
      /\ ~ack => age'.unackRcv = age.unackRcv
  <2>1. age \in Age /\ Never \in Int
    BY <1>2 DEF TaskTypes, Never
  <2>2. age' = age \/ (ack /\ age' = [age EXCEPT !.unackRcv = Never])
    BY <1>1 DEF Acknowledged
  <2> QED
    BY <2>1, <2>2 DEF Age
<1>5. /\ unacked' \in Nat /\ owed' \in Nat
      /\ ack => unacked' = 0 /\ owed' = 0
      /\ ~ack => unacked' = unacked /\ owed' = IF unacked > 0 THEN owed + 1 ELSE 0
  BY <1>1, <1>2 DEF Acknowledged, TaskTypes
<1>6. /\ late \in Nat /\ quiet \in Nat /\ owed \in Nat /\ unacked \in Nat
      /\ age.unackRcv \in Int /\ age.idle \in Int /\ age.testFr \in Int
      /\ set.t1 \in Nat /\ set.t2 \in Nat /\ set.t3 \in Nat
      /\ set.t1 <= Longest /\ set.t2 <= Longest /\ set.t3 <= Longest
  BY <1>2, LongestIs DEF TaskTypes, Age
<1>7. TaskTypes'
  <2>1. due' \in BOOLEAN
    BY <1>1
  <2>2. late' \in 0 .. MaxLate /\ quiet' \in Nat
    BY <1>1, <1>6, LateIsNat
  <2> QED
    BY <1>1, <1>2, <1>3, <1>4, <1>5, <2>1, <2>2 DEF TaskTypes
<1>8. ASSUME NEW n \in Nat, NEW a \in Int, a >= 0, Counted(n, a), NEW n1, n1 = n + 1
      PROVE  CountedAt(n1, a, due', late', Longest' + MaxLate)
  <2>1. Longest' = Longest
    BY <1>1 DEF Longest
  <2> QED
    BY <1>1, <1>2, <1>8, <2>1, TickCounted
<1>9. AckTimer'
  <2>1. CASE ack \/ unacked = 0
    BY <1>5, <1>6, <2>1 DEF AckTimer
  <2>2. CASE ~ack /\ unacked > 0
    <3>1. age.unackRcv >= 0 /\ Counted(owed, age.unackRcv)
      BY <1>2, <2>2 DEF AckTimer
    <3>2. age.unackRcv - late <= set.t2
      BY <1>6, <2>2, <3>1 DEF ack, AckDue, Lapsed, Limit, Never
    <3>3. owed <= set.t2
      BY <1>1, <1>2, <1>6, <3>1, <3>2, NotLapsed
    <3>4. Counted(owed, age.unackRcv)'
      BY <1>4, <1>5, <1>6, <1>8, <2>2, <3>1 DEF Counted
    <3> QED
      BY <1>1, <1>4, <1>5, <1>6, <2>2, <3>1, <3>3, <3>4 DEF AckTimer
  <2> QED
    BY <1>6, <2>1, <2>2
<1>10. ASSUME set.t1 <= set.t3
       PROVE  SilenceTimer'
  <2>1. SilenceTimer
    BY <1>2, <1>10
  <2>2. CASE age.testFr = Never
    <3>1. Counted(quiet, age.idle) /\ quiet <= set.t3 + 1
      BY <1>2, <2>1, <2>2 DEF SilenceTimer
    <3>2. ~probe => quiet <= set.t3
      <4> SUFFICES ASSUME ~probe PROVE quiet <= set.t3
        OBVIOUS
      <4>1. age.idle - late <= set.t3
        BY <1>2, <1>6 DEF probe, Lapsed, Limit, Never
      <4> QED
        BY <1>1, <1>2, <1>6, <3>1, <4>1, NotLapsed
    <3>3. quiet' <= set.t3 + IF Probing' THEN 2 ELSE 1
      <4>1. quiet' = quiet + 1 /\ set'.t3 = set.t3
        BY <1>1
      <4>2. CASE Probing'
        BY <1>6, <3>1, <4>1, <4>2
      <4>3. CASE ~Probing' /\ ~probe
        BY <1>6, <3>2, <4>1, <4>3
      <4> QED
        BY <1>3, <4>2, <4>3
    <3>4. Counted(quiet, age.idle)'
      BY <1>1, <1>2, <1>4, <1>6, <1>8, <3>1 DEF Counted
    <3> QED
      BY <1>1, <1>4, <2>2, <3>3, <3>4 DEF SilenceTimer
  <2>3. CASE age.testFr # Never
    <3>1. age.testFr >= age.idle /\ age.testFr >= 0
      BY <1>2, <1>6, <2>1, <2>3 DEF SilenceTimer, Never
    <3>2. PICK m \in 0 .. set.t3 + 2 :
            m <= quiet /\ quiet - m <= set.t1 + 1 /\ Counted(quiet - m, age.testFr)
      BY <2>1, <2>3 DEF SilenceTimer
    <3>3. age.testFr - late <= set.t1
          /\ (age.testFr - late = set.t1 => "t1" \notin early)
      BY <1>6, <3>1 DEF T1, Unconfirmed, Lapsed, Limit, Never
    <3>4. ~probe
      <4>1. "t3" \in early /\ age.testFr = age.idle /\ set.t1 = set.t3 => "t1" \in early
        BY DEF Early
      <4> QED
        BY <1>6, <1>10, <3>1, <3>3, <4>1 DEF probe, Lapsed, Limit
    <3>5. m \in Nat /\ quiet - m \in Nat /\ quiet' - m = (quiet - m) + 1 /\ m <= quiet'
      BY <1>1, <1>6, <3>2
    <3>6. quiet - m <= set.t1
      BY <1>1, <1>2, <1>6, <3>1, <3>2, <3>3, <3>5, NotLapsed
    <3>7. CountedAt(quiet' - m, age.testFr, due', late', Longest' + MaxLate)
      <4> DEFINE n == quiet - m
      <4>1. n \in Nat /\ Counted(n, age.testFr) /\ quiet' - m = n + 1
        BY <3>2, <3>5
      <4> HIDE DEF n
      <4> QED
        BY <1>6, <1>8, <3>1, <4>1
    <3>8. (\E i \in 0 .. set.t3 + 2 :
             i <= quiet /\ quiet - i <= set.t1 + 1 /\ Counted(quiet - i, age.testFr))'
      <4>1. quiet' - m <= set.t1 + 1
        BY <1>6, <3>5, <3>6
      <4>2. Counted(quiet - m, age.testFr)'
        BY <1>4, <3>7 DEF Counted
      <4> QED
        BY <1>1, <3>5, <4>1, <4>2
    <3> QED
      BY <1>3, <1>4, <2>3, <3>1, <3>4, <3>8 DEF SilenceTimer
  <2> QED
    BY <2>2, <2>3
<1> QED
  BY <1>1, <1>2, <1>3, <1>4, <1>7, <1>9, <1>10 DEF TimerInv

\* Every step keeps the invariant.
LEMMA NextTimer == TimerInv /\ [Next]_vars => TimerInv'
<1> SUFFICES ASSUME TimerInv, [Next]_vars PROVE TimerInv'
  OBVIOUS
<1>1. CASE Ends
  BY <1>1, LeaveTimer DEF Ends
<1>2. CASE Ticks
  <2>1. PICK early \in Early : Tick(early)
    BY <1>2 DEF Ticks
  <2>2. CASE T1(early)
    BY <2>1, <2>2, LeaveTimer DEF Tick
  <2> QED
    BY <2>1, <2>2, TickTimer
<1>3. CASE PutPack \/ PutRaw
  <2>1. CASE Leave /\ UNCHANGED set
    BY <2>1, LeaveTimer
  <2>2. CASE ~(Leave /\ UNCHANGED set)
    <3>1. /\ todo # <<>> /\ Head(todo) # "probe" /\ Continue(Tail(todo))
          /\ UNCHANGED <<set, unacked, age, clock, past>>
      BY <1>3, <2>2 DEF PutPack, PutRaw, timers
    <3>2. TodoTypes' /\ Running /\ (Probing' <=> Probing)
      BY <3>1, GoesOn DEF TimerInv, TaskTypes
    <3> QED
      BY <3>1, <3>2, SameTimers
  <2> QED
    BY <2>1, <2>2
<1>4. CASE Returns
  <2>1. /\ driver = "left" /\ driver' = "returned"
        /\ UNCHANGED <<set, todo, unacked, age, clock, past>>
    BY <1>4 DEF Returns, timers
  <2>2. TodoTypes' /\ ~Running' /\ (Probing' <=> Probing)
    BY <2>1 DEF TimerInv, TaskTypes, TodoTypes, Running, Probing
  <2> QED
    BY <2>1, <2>2, SameTimers
<1>5. CASE UNCHANGED <<set, driver, todo, timers, clock, past>>
  <2>1. UNCHANGED <<set, unacked, age, clock, past, driver, todo>>
    BY <1>5 DEF timers
  <2>2. TodoTypes' /\ (Running' => Running) /\ (Probing' <=> Probing)
    BY <2>1 DEF TimerInv, TaskTypes, TodoTypes, Running, Probing
  <2> QED
    BY <2>1, <2>2, SameTimers
<1>6. CASE \/ ReaderReads \/ ReaderPuts \/ ReaderEnds
           \/ WriterTakes \/ WriterWrites \/ WriterEnds
           \/ Dispatch \/ HandlerReturns \/ DispatcherEnds
           \/ TryEnqueue \/ PeerCloses \/ \E f \in Frame : PeerSends(f)
  BY <1>5, <1>6 DEF ReaderReads, ReaderPuts, ReaderEnds, WriterTakes, WriterWrites,
                    WriterEnds, Dispatch, HandlerReturns, DispatcherEnds, TryEnqueue,
                    PeerCloses, PeerSends
<1>7. CASE UNCHANGED vars
  BY <1>5, <1>7 DEF vars
<1> QED
  BY <1>1, <1>2, <1>3, <1>4, <1>6, <1>7, AdvanceTimer, SendTimer, TakeTimer, NumberTimer,
     ProbeTimer DEF Next, Waits

\* TimerInv is an invariant of the tasks.
THEOREM TimerInvariance == Spec => []TimerInv
BY InitTimer, NextTimer, PTL DEF Spec

\* A received I-frame is acknowledged by t2, rounded up to ticks, however the frames
\* that follow it are spaced and however late the driver takes its ticks
\* (Driver::tick, unack_rcv_since).
THEOREM AckCorrect == Spec => []AckInTime
<1>1. TimerInv => AckInTime
  <2> SUFFICES ASSUME TimerInv, driver = "select", unacked > 0 PROVE owed < set.t2 + 2
    BY DEF AckInTime
  <2>1. owed <= set.t2 + 1 /\ owed \in Nat
    BY DEF TimerInv, Running, AckTimer, TaskTypes
  <2>2. set.t2 \in Nat
    BY LongestIs DEF TimerInv, TaskTypes
  <2> QED
    BY <2>1, <2>2
<1> QED
  BY <1>1, TimerInvariance, PTL

\* Where no connection sets t1 above t3, a driver that gets no frame leaves its loop
\* within t3 and t1, rounded up to ticks: one TESTFR act goes out, and none restarts
\* the wait for its confirmation (Driver::tick, test_fr_since).
THEOREM SilenceCorrect ==
    ASSUME \A x \in Settings : x.t1 <= x.t3
    PROVE  Spec => []SilenceEndsIt
<1>1. TimerInv => SilenceEndsIt
  <2> SUFFICES ASSUME TimerInv, Running
               PROVE  quiet < (set.t3 + 2) + (set.t1 + 2)
    BY DEF SilenceEndsIt, Running
  <2>1. SilenceTimer /\ quiet \in Nat
    BY DEF TimerInv, TaskTypes
  <2>2. set.t1 \in Nat /\ set.t3 \in Nat
    BY LongestIs DEF TimerInv, TaskTypes
  <2>3. CASE age.testFr = Never
    <3>1. quiet <= set.t3 + 2
      BY <2>1, <2>2, <2>3 DEF SilenceTimer
    <3> QED
      BY <2>1, <2>2, <3>1
  <2>4. CASE age.testFr # Never
    <3>1. PICK m \in 0 .. set.t3 + 2 : m <= quiet /\ quiet - m <= set.t1 + 1
      BY <2>1, <2>4 DEF SilenceTimer
    <3> QED
      BY <2>1, <2>2, <3>1
  <2> QED
    BY <2>3, <2>4
<1> QED
  BY <1>1, TimerInvariance, PTL
==============================================================================
