---------------------------- MODULE InputProofs ----------------------------
(* Theorems about what becomes of the user's input: Keyboard, for every    *)
(* set of keys and every size of the controller's queue, and ShellParse,   *)
(* for every alphabet, line length, argv and set of commands.              *)
EXTENDS Keyboard, ShellParse, SequenceTheorems, FiniteSetTheorems, WellFoundedInduction, TLAPS

ShiftCode == {"make", "break"}
Entry == [code : ShiftCode \cup Key \cup DeadKey, shifted : BOOLEAN, chord : BOOLEAN, desync : BOOLEAN]

(* No shift code at the positions m to k - 1 of a queue.                   *)
Quiet(q, m, k) == \A x \in m .. k - 1 : q[x].code \notin ShiftCode

(* With the flag at its value now and the queue q before it, a code e at   *)
(* position k will be read under the flag that matches the keys held down  *)
(* when it was sent, but for the two exceptions of the properties.  The    *)
(* flag it will be read under is that of the last shift code before it, or *)
(* the present one if there is none.                                       *)
Agrees(q, flag, k, e) ==
  ~e.desync =>
    /\ \A m \in 1 .. k - 1 : Quiet(q, m + 1, k) =>
         /\ q[m].code = "make" => e.shifted
         /\ q[m].code = "break" => ~e.shifted \/ e.chord
    /\ Quiet(q, 1, k) =>
         /\ flag # 0 => e.shifted
         /\ flag = 0 => ~e.shifted \/ e.chord

(* The queue and the flag are well typed.                                  *)
QueueType ==
  /\ shift_pressed \in {0, 1} /\ queue \in Seq(Entry)
  /\ chord \in BOOLEAN /\ desync \in BOOLEAN

(* Every code in the queue agrees with the flag, and so would a code sent  *)
(* now; two keys held down make a chord.                                   *)
QueueInv ==
  /\ \A k \in 1 .. Len(queue) : Agrees(queue, shift_pressed, k, queue[k])
  /\ Agrees(queue, shift_pressed, Len(queue) + 1, Sent("none"))
  /\ \A a, b \in held : a # b => chord

IInv == QueueType /\ QueueInv /\ UpperOnlyUnderShift /\ ShiftAppliesUnlessChord

---------------------------------------------------------------------------
(* Whether a code agrees does not depend on what is sent after it.         *)
LEMMA AppendAgrees ==
  ASSUME NEW q \in Seq(Entry), NEW e \in Entry, NEW flag, NEW k \in 1 .. Len(q) + 1, NEW r,
         Agrees(q, flag, k, r)
  PROVE  Agrees(Append(q, e), flag, k, r)
<1> DEFINE a == Append(q, e)
<1>1. \A x \in 1 .. Len(q) : a[x] = q[x]
  OBVIOUS
<1> HIDE DEF a
<1>2. ASSUME NEW m \in 1 .. k, Quiet(a, m, k) PROVE Quiet(q, m, k)
  BY <1>1, <1>2 DEF Quiet
<1>3. ASSUME ~r.desync
      PROVE  /\ \A m \in 1 .. k - 1 : Quiet(a, m + 1, k) =>
                  /\ a[m].code = "make" => r.shifted
                  /\ a[m].code = "break" => ~r.shifted \/ r.chord
             /\ Quiet(a, 1, k) =>
                  /\ flag # 0 => r.shifted
                  /\ flag = 0 => ~r.shifted \/ r.chord
  <2>1. ASSUME NEW m \in 1 .. k - 1, Quiet(a, m + 1, k)
        PROVE  /\ a[m].code = "make" => r.shifted
               /\ a[m].code = "break" => ~r.shifted \/ r.chord
    <3>1. Quiet(q, m + 1, k) /\ a[m] = q[m]
      BY <1>1, <1>2, <2>1
    <3> QED BY <1>3, <3>1, Zenon DEF Agrees
  <2>2. Quiet(a, 1, k) => Quiet(q, 1, k)
    BY <1>2
  <2> QED BY <1>3, <2>1, <2>2, Zenon DEF Agrees
<1> QED BY <1>3, Zenon DEF Agrees, a

(* Reading a code leaves the others in agreement with the flag.            *)
LEMMA TailAgrees ==
  ASSUME NEW q \in Seq(Entry), q # <<>>, NEW flag, NEW k \in 1 .. Len(q), NEW r, NEW new,
         Agrees(q, flag, k + 1, r),
         q[1].code = "make" => new = 1,
         q[1].code = "break" => new = 0,
         q[1].code \notin ShiftCode => new = flag
  PROVE  Agrees(Tail(q), new, k, r)
<1> DEFINE t == Tail(q)
<1>1. Len(q) \in Nat /\ \A x \in 1 .. Len(q) - 1 : t[x] = q[x + 1]
  OBVIOUS
<1> HIDE DEF t
<1>2. ASSUME NEW m \in 1 .. k, Quiet(t, m, k) PROVE Quiet(q, m + 1, k + 1)
  <2>1. ASSUME NEW x \in m + 1 .. k PROVE q[x].code \notin ShiftCode
    <3>1. x - 1 \in m .. k - 1 /\ x - 1 \in 1 .. Len(q) - 1 /\ (x - 1) + 1 = x
      BY <1>1
    <3>2. t[x - 1] = q[x]
      BY <1>1, <3>1
    <3> QED BY <1>2, <3>1, <3>2 DEF Quiet
  <2> QED BY <2>1 DEF Quiet
<1>3. ASSUME ~r.desync, NEW m \in 1 .. k - 1, Quiet(t, m + 1, k)
      PROVE  /\ t[m].code = "make" => r.shifted
             /\ t[m].code = "break" => ~r.shifted \/ r.chord
  <2>1. m + 1 \in 1 .. (k + 1) - 1 /\ m + 1 \in 1 .. k
    BY <1>1
  <2>2. Quiet(q, (m + 1) + 1, k + 1) /\ t[m] = q[m + 1]
    BY <1>1, <1>2, <1>3, <2>1
  <2> QED BY <1>3, <2>1, <2>2, Zenon DEF Agrees
<1>4. ASSUME ~r.desync, Quiet(t, 1, k)
      PROVE  /\ new # 0 => r.shifted
             /\ new = 0 => ~r.shifted \/ r.chord
  <2>1. Quiet(q, 1 + 1, k + 1)
    BY <1>1, <1>2, <1>4
  <2>2. 1 \in 1 .. (k + 1) - 1
    BY <1>1
  <2>3. /\ q[1].code = "make" => r.shifted
        /\ q[1].code = "break" => ~r.shifted \/ r.chord
    BY <1>4, <2>1, <2>2, Zenon DEF Agrees
  <2>4. CASE q[1].code = "make"
    <3>1. new # 0
      BY <2>4
    <3> QED BY <2>3, <2>4, <3>1, Zenon
  <2>5. CASE q[1].code = "break"
    BY <2>3, <2>5, Zenon
  <2>6. CASE q[1].code \notin ShiftCode
    <3>1. Quiet(q, 1, k + 1)
      BY <1>1, <2>1, <2>6 DEF Quiet
    <3> QED BY <1>4, <2>6, <3>1, Zenon DEF Agrees
  <2> QED BY <2>4, <2>5, <2>6 DEF ShiftCode
<1> QED BY <1>3, <1>4, Zenon DEF Agrees, t

(* The code of a key that follows a shift code agrees with that code.      *)
LEMMA ShiftAgrees ==
  ASSUME NEW q \in Seq(Entry), NEW e \in Entry, NEW flag, NEW r, e.code \in ShiftCode,
         e.code = "make" => r.shifted, e.code = "break" => ~r.shifted \/ r.chord
  PROVE  Agrees(Append(q, e), flag, Len(q) + 2, r)
<1> DEFINE a == Append(q, e)  n == Len(q) + 1
<1>1. n \in Nat /\ a[n] = e /\ n + 1 = Len(q) + 2
  OBVIOUS
<1> HIDE DEF a, n
<1>2. ASSUME NEW m \in 1 .. n, Quiet(a, m, n + 1) PROVE FALSE
  <2>1. n \in m .. (n + 1) - 1
    BY <1>1
  <2> QED BY <1>1, <1>2, <2>1 DEF Quiet
<1>3. ASSUME NEW m \in 1 .. (n + 1) - 1, Quiet(a, m + 1, n + 1) PROVE m = n
  <2>1. m \in 1 .. n /\ (m # n => m + 1 \in 1 .. n)
    BY <1>1
  <2> QED BY <1>2, <1>3, <2>1
<1>4. ~Quiet(a, 1, n + 1)
  BY <1>1, <1>2
<1>5. Agrees(a, flag, n + 1, r)
  BY <1>1, <1>3, <1>4, Zenon DEF Agrees
<1> QED BY <1>1, <1>5, Zenon DEF a

---------------------------------------------------------------------------
(* A code that is sent with what is true now agrees as one sent now would. *)
LEMMA SentAgrees ==
  ASSUME QueueInv, NEW c
  PROVE  Agrees(queue, shift_pressed, Len(queue) + 1, Sent(c))
<1>1. /\ Sent(c).desync = Sent("none").desync /\ Sent(c).shifted = Sent("none").shifted
      /\ Sent(c).chord = Sent("none").chord
  BY Zenon DEF Sent
<1> QED BY <1>1, Zenon DEF QueueInv, Agrees

(* A code the keyboard sends is an entry of the queue.                     *)
LEMMA SentType ==
  ASSUME QueueType, NEW c \in ShiftCode \cup Key \cup DeadKey
  PROVE  Sent(c) \in Entry
  BY DEF Sent, Entry, QueueType

(* The codes in the queue keep agreeing when one is added.                 *)
LEMMA QueueGrows ==
  ASSUME QueueType, QueueInv, NEW c \in ShiftCode \cup Key \cup DeadKey,
         queue' = Append(queue, Sent(c)), shift_pressed' = shift_pressed
  PROVE  /\ queue' \in Seq(Entry) /\ Len(queue') = Len(queue) + 1 /\ Len(queue) \in Nat
         /\ \A k \in 1 .. Len(queue') : Agrees(queue', shift_pressed', k, queue'[k])
<1>1. Sent(c) \in Entry /\ queue \in Seq(Entry) /\ Len(queue) \in Nat
  BY SentType DEF QueueType
<1>2. PICK e \in Entry : e = Sent(c)
  BY <1>1
<1>3. queue' = Append(queue, e)
  BY <1>2
<1>4. queue' \in Seq(Entry) /\ Len(queue') = Len(queue) + 1
  BY <1>1, <1>3
<1>5. ASSUME NEW k \in 1 .. Len(queue') PROVE Agrees(queue', shift_pressed', k, queue'[k])
  <2>1. CASE k = Len(queue) + 1
    <3>1. queue'[k] = Sent(c)
      BY <1>1, <1>2, <1>3, <2>1
    <3>2. Agrees(queue, shift_pressed, k, Sent(c))
      BY <2>1, SentAgrees
    <3>3. k \in 1 .. Len(queue) + 1
      BY <1>4
    <3> QED BY <1>1, <1>3, <3>1, <3>2, <3>3, AppendAgrees
  <2>2. CASE k \in 1 .. Len(queue)
    <3>1. queue'[k] = queue[k] /\ k \in 1 .. Len(queue) + 1
      BY <1>1, <1>3, <2>2
    <3>2. Agrees(queue, shift_pressed, k, queue[k])
      BY <2>2 DEF QueueInv
    <3> QED BY <1>1, <1>3, <3>1, <3>2, AppendAgrees
  <2> QED BY <1>1, <1>4, <2>1, <2>2
<1> QED BY <1>1, <1>4, <1>5

(* What pressing or releasing a shift key does to agreement: the code, if  *)
(* it is not lost, sets the flag for all that follows it.                  *)
LEMMA ShiftSent ==
  ASSUME IInv, NEW c \in ShiftCode, SendShift(c),
         chord' \in BOOLEAN, \A a, b \in held' : a # b => chord',
         c = "make" => held' # {}, c = "break" => held' = {} \/ chord'
  PROVE  IInv'
<1> USE DEF IInv
<1>1. UNCHANGED <<shift_pressed, last>> /\ desync' = (Len(queue) = QueueSize)
  BY DEF SendShift
<1>2. CASE Len(queue) = QueueSize
  <2>1. queue' = queue /\ desync' = TRUE
    BY <1>1, <1>2 DEF SendShift
  <2>2. Sent("none")'.desync = TRUE
    BY <2>1, Zenon DEF Sent
  <2>3. Agrees(queue, shift_pressed, Len(queue) + 1, Sent("none"))'
    BY <2>2, Zenon DEF Agrees
  <2>4. QueueInv'
    BY <1>1, <2>1, <2>3, Zenon DEF QueueInv
  <2>5. QueueType'
    BY <1>1, <2>1, Zenon DEF QueueType
  <2> QED BY <1>1, <2>4, <2>5, Zenon DEF UpperOnlyUnderShift, ShiftAppliesUnlessChord
<1>3. CASE Len(queue) # QueueSize
  <2>1. queue' = Append(queue, Sent(c)) /\ desync' \in BOOLEAN
    BY <1>1, <1>3 DEF SendShift
  <2>2. /\ queue' \in Seq(Entry) /\ Len(queue') = Len(queue) + 1 /\ Len(queue) \in Nat
        /\ \A k \in 1 .. Len(queue') : Agrees(queue', shift_pressed', k, queue'[k])
    BY <1>1, <2>1, QueueGrows
  <2>3. /\ c = "make" => Sent("none")'.shifted
        /\ c = "break" => ~Sent("none")'.shifted \/ Sent("none")'.chord
    BY Zenon DEF Sent
  <2>4. Sent(c) \in Entry /\ Sent(c).code = c /\ queue \in Seq(Entry)
    BY SentType DEF Sent, QueueType
  <2>5. Agrees(Append(queue, Sent(c)), shift_pressed', Len(queue) + 2, Sent("none")')
    BY <2>3, <2>4, ShiftAgrees, Zenon
  <2>6. Len(queue') + 1 = Len(queue) + 2
    BY <2>2
  <2>7. Agrees(queue', shift_pressed', Len(queue') + 1, Sent("none")')
    BY <2>1, <2>5, <2>6, Zenon
  <2>8. QueueInv'
    BY <2>2, <2>7, Zenon DEF QueueInv
  <2>9. QueueType'
    BY <1>1, <2>1, <2>2, Zenon DEF QueueType
  <2> QED BY <1>1, <2>8, <2>9, Zenon DEF UpperOnlyUnderShift, ShiftAppliesUnlessChord
<1> QED BY <1>2, <1>3

(* The invariant holds initially.                                          *)
LEMMA InitIInv == KbInit => IInv
<1> SUFFICES ASSUME KbInit PROVE IInv
  OBVIOUS
<1>1. QueueType
  <2>1. queue \in Seq(Entry) /\ shift_pressed \in {0, 1}
    BY DEF KbInit
  <2>2. chord \in BOOLEAN /\ desync \in BOOLEAN
    BY Zenon DEF KbInit
  <2> QED BY <2>1, <2>2 DEF QueueType
<1>2. Len(queue) = 0 /\ held = {}
  BY DEF KbInit
<1>3. Sent("none").shifted = FALSE
  BY <1>2, Zenon DEF Sent
<1>4. shift_pressed = 0 /\ 1 .. 0 = {}
  BY DEF KbInit
<1>5. Agrees(queue, shift_pressed, Len(queue) + 1, Sent("none"))
  <2>1. 1 .. (Len(queue) + 1) - 1 = {}
    BY <1>2
  <2> QED BY <1>3, <1>4, <2>1, Zenon DEF Agrees
<1>6. QueueInv
  BY <1>2, <1>4, <1>5, Zenon DEF QueueInv
<1>7. last.char = NoChar /\ NoChar.upper = FALSE
  BY Zenon DEF KbInit, NoKey, NoChar
<1> QED BY <1>1, <1>6, <1>7, Zenon DEF IInv, UpperOnlyUnderShift, ShiftAppliesUnlessChord

(* Every step of keyboard, controller and kernel preserves the invariant.  *)
LEMMA NextIInv == IInv /\ [KbNext]_kbVars => IInv'
<1> SUFFICES ASSUME IInv, [KbNext]_kbVars PROVE IInv'
  OBVIOUS
<1>1. ASSUME NEW k \in ShiftKey, PressShift(k) PROVE IInv'
  <2>1. held' = held \cup {k} /\ chord' = (chord \/ held # {}) /\ SendShift("make")
    BY <1>1 DEF PressShift
  <2>2. \A a, b \in held' : a # b => chord'
    BY <2>1, Zenon DEF IInv, QueueInv
  <2>3. held' # {} /\ chord' \in BOOLEAN
    BY <2>1
  <2> QED BY <2>1, <2>2, <2>3, ShiftSent DEF ShiftCode
<1>2. ASSUME NEW k \in ShiftKey, ReleaseShift(k) PROVE IInv'
  <2>1. k \in held /\ held' = held \ {k} /\ chord' = (chord /\ held' # {}) /\ SendShift("break")
    BY <1>2 DEF ReleaseShift
  <2>2. \A a, b \in held' : a # b => chord'
    BY <2>1, Zenon DEF IInv, QueueInv
  <2>3. held' = {} \/ chord'
    BY <2>1, Zenon DEF IInv, QueueInv
  <2>4. chord' \in BOOLEAN
    BY <2>1
  <2> QED BY <2>1, <2>2, <2>3, <2>4, ShiftSent DEF ShiftCode
<1>3. ASSUME NEW k \in Key \cup DeadKey, PressKey(k) PROVE IInv'
  <2>1. UNCHANGED <<shift_pressed, held, chord, desync, last>>
    BY <1>3 DEF PressKey
  <2>2. Sent("none")' = Sent("none")
    BY <2>1 DEF Sent
  <2>3. CASE queue' = queue
    BY <2>1, <2>2, <2>3, Zenon DEF IInv, QueueType, QueueInv, UpperOnlyUnderShift, ShiftAppliesUnlessChord
  <2>4. CASE queue' = Append(queue, Sent(k))
    <3>1. /\ queue' \in Seq(Entry) /\ Len(queue') = Len(queue) + 1 /\ Len(queue) \in Nat
          /\ \A x \in 1 .. Len(queue') : Agrees(queue', shift_pressed', x, queue'[x])
      BY <2>1, <2>4, QueueGrows DEF IInv
    <3>2. Agrees(queue', shift_pressed', Len(queue') + 1, Sent("none")')
      <4>1. PICK n \in Nat : n = Len(queue)
        BY <3>1
      <4>2. Sent(k) \in Entry /\ Sent(k).code = k /\ queue \in Seq(Entry) /\ k \notin ShiftCode
        BY SentType, KeysAssumption DEF Sent, QueueType, IInv, ShiftCode
      <4>3. Agrees(queue, shift_pressed, n + 1, Sent("none"))
        BY <4>1 DEF IInv, QueueInv
      <4>4. \A x \in 1 .. n : queue'[x] = queue[x]
        BY <2>4, <4>1, <4>2
      <4>5. queue'[n + 1].code \notin ShiftCode
        BY <2>4, <4>1, <4>2
      <4> DEFINE r == Sent("none")
      <4> HIDE DEF r
      <4>6. ASSUME ~r.desync, NEW m \in 1 .. (n + 2) - 1, Quiet(queue', m + 1, n + 2)
            PROVE  /\ queue'[m].code = "make" => r.shifted
                   /\ queue'[m].code = "break" => ~r.shifted \/ r.chord
        <5>1. CASE m = n + 1
          BY <4>5, <5>1 DEF ShiftCode
        <5>2. CASE m \in 1 .. n
          <6>1. Quiet(queue, m + 1, n + 1) /\ m \in 1 .. (n + 1) - 1
            BY <4>4, <4>6, <5>2 DEF Quiet
          <6>2. queue'[m] = queue[m]
            BY <4>4, <5>2
          <6> QED BY <4>3, <4>6, <6>1, <6>2, Zenon DEF Agrees, r
        <5> QED BY <5>1, <5>2
      <4>7. ASSUME ~r.desync, Quiet(queue', 1, n + 2)
            PROVE  /\ shift_pressed # 0 => r.shifted
                   /\ shift_pressed = 0 => ~r.shifted \/ r.chord
        <5>1. Quiet(queue, 1, n + 1)
          BY <4>4, <4>7 DEF Quiet
        <5> QED BY <4>3, <4>7, <5>1, Zenon DEF Agrees, r
      <4>8. Agrees(queue', shift_pressed, n + 2, r)
        BY <4>6, <4>7, Zenon DEF Agrees
      <4>9. Len(queue') + 1 = n + 2
        BY <3>1, <4>1
      <4> QED BY <2>1, <2>2, <4>8, <4>9, Zenon DEF r
    <3> QED BY <2>1, <3>1, <3>2, Zenon DEF IInv, QueueType, QueueInv, UpperOnlyUnderShift, ShiftAppliesUnlessChord
  <2> QED BY <1>3, <2>3, <2>4 DEF PressKey
<1>4. CASE read_key
  <2> DEFINE c == queue[1].code
  <2>1. /\ queue # <<>> /\ queue \in Seq(Entry) /\ Head(queue) = queue[1] /\ queue' = Tail(queue)
        /\ shift_pressed' = ShiftAfter(c) /\ UNCHANGED <<held, chord, desync>>
        /\ last' = [char |-> Translate(c), for |-> queue[1]]
    BY <1>4 DEF read_key, IInv, QueueType
  <2>2. Len(queue) \in Nat /\ Len(queue) >= 1 /\ queue' \in Seq(Entry) /\ Len(queue') = Len(queue) - 1
    BY <2>1
  <2>3. shift_pressed' \in {0, 1}
    BY <2>1 DEF ShiftAfter, IInv, QueueType
  <2>4. /\ c = "make" => shift_pressed' = 1
        /\ c = "break" => shift_pressed' = 0
        /\ c \notin ShiftCode => shift_pressed' = shift_pressed
    BY <2>1 DEF ShiftAfter, ShiftCode
  <2>5. ASSUME NEW k \in 1 .. Len(queue'), NEW r, r = queue'[k] PROVE Agrees(queue', shift_pressed', k, r)
    <3>1. k \in 1 .. Len(queue) /\ k + 1 \in 1 .. Len(queue) /\ queue'[k] = queue[k + 1]
      BY <2>1, <2>2
    <3>2. Agrees(queue, shift_pressed, k + 1, r)
      BY <2>5, <3>1, Zenon DEF IInv, QueueInv
    <3> QED BY <2>1, <2>4, <3>1, <3>2, TailAgrees
  <2>6. Sent("none")' = Sent("none")
    BY <2>1 DEF Sent
  <2>7. Agrees(queue', shift_pressed', Len(queue') + 1, Sent("none")')
    <3>1. Len(queue') + 1 = Len(queue) /\ Len(queue) \in 1 .. Len(queue)
      BY <2>2
    <3>2. Agrees(queue, shift_pressed, Len(queue) + 1, Sent("none"))
      BY DEF IInv, QueueInv
    <3>3. Agrees(Tail(queue), shift_pressed', Len(queue), Sent("none"))
      BY <2>1, <2>4, <3>1, <3>2, TailAgrees
    <3> QED BY <2>1, <2>6, <3>1, <3>3, Zenon
  <2>8. QueueInv' /\ QueueType'
    BY <2>1, <2>2, <2>3, <2>5, <2>7, Zenon DEF QueueInv, QueueType, IInv
  <2>9. UpperOnlyUnderShift' /\ ShiftAppliesUnlessChord'
    <3>1. Agrees(queue, shift_pressed, 1, queue[1])
      BY <2>2 DEF IInv, QueueInv
    <3>2. Quiet(queue, 1, 1)
      BY DEF Quiet
    <3>3. ~queue[1].desync => /\ shift_pressed # 0 => queue[1].shifted
                              /\ shift_pressed = 0 => ~queue[1].shifted \/ queue[1].chord
      BY <3>1, <3>2, Zenon DEF Agrees
    <3>4. last'.char = Translate(c) /\ last'.for = queue[1]
      BY <2>1, Zenon
    <3>5. CASE c \in Key
      <4>1. Translate(c).upper = (shift_pressed # 0)
        BY <3>5, Zenon DEF Translate
      <4> QED BY <3>3, <3>4, <4>1, Zenon DEF UpperOnlyUnderShift, ShiftAppliesUnlessChord
    <3>6. CASE c \notin Key
      <4>1. Translate(c) = NoChar /\ NoChar.upper = FALSE
        BY <3>6, Zenon DEF Translate, NoChar
      <4> QED BY <3>4, <4>1, Zenon DEF UpperOnlyUnderShift, ShiftAppliesUnlessChord
    <3> QED BY <3>5, <3>6
  <2> QED BY <2>8, <2>9 DEF IInv
<1>5. CASE UNCHANGED kbVars
  <2>1. UNCHANGED <<shift_pressed, queue, held, chord, desync, last>>
    BY <1>5 DEF kbVars
  <2>2. Sent("none")' = Sent("none")
    BY <2>1 DEF Sent
  <2> QED BY <2>1, <2>2, Zenon DEF IInv, QueueType, QueueInv, UpperOnlyUnderShift, ShiftAppliesUnlessChord
<1> QED BY <1>1, <1>2, <1>3, <1>4, <1>5 DEF KbNext

(* A shifted character comes only from a key pressed under a held shift,   *)
(* unless the last shift code before it was lost, however long the queue   *)
(* and however many keys send shift codes.                                 *)
THEOREM UpperUnderShift == KbSpec => []UpperOnlyUnderShift
<1>1. IInv => UpperOnlyUnderShift
  BY DEF IInv
<1> QED BY <1>1, InitIInv, NextIInv, PTL DEF KbSpec

(* A key pressed under a held shift gives its plain character only after a *)
(* lost shift code or a chord.                                             *)
THEOREM ShiftApplies == KbSpec => []ShiftAppliesUnlessChord
<1>1. IInv => ShiftAppliesUnlessChord
  BY DEF IInv
<1> QED BY <1>1, InitIInv, NextIInv, PTL DEF KbSpec

---------------------------------------------------------------------------
(* The parser.  Word k is finished: it is where it was typed, and a        *)
(* terminator follows it.                                                  *)
WordCut(k) ==
  \E e \in argv[k] .. Len(line) :
    /\ \A f \in argv[k] .. e : line[f] # Space /\ input[f] = line[f]
    /\ e = Len(line) \/ line[e + 1] = Space
    /\ input[e + 1] = Nul

(* Words that begin up to a position.                                      *)
StartsTo(l, s) == {t \in Starts(l) : t <= s}

(* What is not scanned yet is as it was typed, the terminator included.    *)
AheadInv ==
  pc \in {"start", "loop", "skip", "token"} =>
    input[Len(line) + 1] = Nul /\ \A k \in p .. Len(line) : input[k] = line[k]

(* argv[k] is where the k-th word begins, and all words but the one being  *)
(* scanned are finished.                                                   *)
ArgvInv ==
  /\ argv \in Seq(Nat)
  /\ \A k \in DOMAIN argv : argv[k] \in Starts(line) /\ Cardinality(StartsTo(line, argv[k])) = k
  /\ \A k \in DOMAIN argv : (pc = "token" => k < Len(argv)) => WordCut(k)

(* argv holds all the words that begin before the pointer.                 *)
ScanInv ==
  /\ pc = "start" => p = 1 /\ argv = <<>>
  /\ pc \in {"loop", "skip"} =>
       /\ p = 1 \/ p = Len(line) + 1 \/ line[p - 1] = Space
       /\ Cardinality(StartsTo(line, p - 1)) = Len(argv)
  /\ pc = "skip" => Len(argv) < MaxArgs
  /\ pc = "token" =>
       /\ argv # <<>> /\ argv[Len(argv)] <= p
       /\ Cardinality(StartsTo(line, p)) = Len(argv)
       /\ \A f \in argv[Len(argv)] .. p - 1 : line[f] # Space /\ input[f] = line[f]
  /\ pc \in {"parsed", "prompt"} =>
       LET words == Cardinality(Starts(line)) IN Len(argv) = IF words < MaxArgs THEN words ELSE MaxArgs

(* Nothing runs before the line is parsed.                                 *)
RanInv == pc # "prompt" => ran = "nothing"

ParseInv == ParseTypeOK /\ AheadInv /\ ArgvInv /\ ScanInv /\ RanInv /\ DispatchCorrect

(* A set of natural numbers that is not empty has a least element.         *)
LEMMA Least ==
  ASSUME NEW T, T \subseteq Nat, T # {}
  PROVE  \E x \in T : \A y \in T : x <= y
<1>1. PICK x \in T : \A y \in T : ~(<<y, x>> \in OpToRel(<, Nat))
  BY WFMin, NatLessThanWellFounded, Zenon
<1>2. ASSUME NEW y \in T PROVE x <= y
  <2>1. x \in Nat /\ y \in Nat
    OBVIOUS
  <2>2. ~(y < x)
    BY <1>1, <2>1 DEF OpToRel
  <2> QED BY <2>1, <2>2
<1> QED BY <1>2

(* A line is a sequence of letters and spaces that fits in the buffer.     *)
LEMMA LineFacts ==
  ASSUME NEW l \in Line
  PROVE  /\ l \in Seq(Letter \cup {Space}) /\ Len(l) \in Nat /\ Len(l) <= MaxLine
         /\ DOMAIN l = 1 .. Len(l)
         /\ \A k \in 1 .. Len(l) : l[k] \in Letter \cup {Space} /\ l[k] # Nul
<1>1. PICK n \in 0 .. MaxLine : l \in [1 .. n -> Letter \cup {Space}]
  BY Zenon DEF Line
<1>2. n \in Nat /\ n <= MaxLine
  BY SizeAssumption
<1>3. l \in Seq(Letter \cup {Space}) /\ Len(l) = n
  BY <1>1, <1>2
<1> QED BY <1>1, <1>2, <1>3, SymbolAssumption

(* The input buffer as a sequence.                                         *)
LEMMA BufferFacts ==
  ASSUME NEW b \in Buffer
  PROVE  /\ b \in Seq(Letter \cup {Space, Nul}) /\ Len(b) = MaxLine + 1
         /\ DOMAIN b = 1 .. MaxLine + 1
  BY SizeAssumption DEF Buffer

(* A sequence has finitely many words, and as many begin up to a position  *)
(* as the number of the last of them.                                      *)
LEMMA StartsFinite ==
  ASSUME NEW S, NEW l \in Seq(S)
  PROVE  /\ Starts(l) \subseteq 1 .. Len(l)
         /\ IsFiniteSet(Starts(l)) /\ Cardinality(Starts(l)) \in Nat
         /\ \A s : /\ IsFiniteSet(StartsTo(l, s)) /\ Cardinality(StartsTo(l, s)) \in Nat
                   /\ Cardinality(StartsTo(l, s)) <= Cardinality(Starts(l))
<1>1. Starts(l) \subseteq 1 .. Len(l) /\ Len(l) \in Nat
  BY DEF Starts
<1>2. IsFiniteSet(1 .. Len(l))
  BY <1>1, FS_Interval
<1>3. IsFiniteSet(Starts(l))
  BY <1>1, <1>2, FS_Subset
<1>4. \A s : StartsTo(l, s) \in SUBSET Starts(l)
  BY DEF StartsTo
<1>5. \A s : IsFiniteSet(StartsTo(l, s)) /\ Cardinality(StartsTo(l, s)) <= Cardinality(Starts(l))
  BY <1>3, <1>4, FS_Subset
<1> QED BY <1>1, <1>3, <1>5, FS_CardinalityType

(* Two words with the same number are the same.                            *)
LEMMA SameNumber ==
  ASSUME NEW S, NEW l \in Seq(S), NEW s \in Starts(l), NEW t \in Starts(l),
         Cardinality(StartsTo(l, s)) = Cardinality(StartsTo(l, t))
  PROVE  s = t
<1>1. s \in Nat /\ t \in Nat
  BY StartsFinite
<1>2. ASSUME NEW a \in Starts(l), NEW b \in Starts(l), a \in Nat, b \in Nat, a < b,
             Cardinality(StartsTo(l, a)) = Cardinality(StartsTo(l, b))
      PROVE  FALSE
  <2>1. \A u \in Starts(l) : u \in Nat
    BY StartsFinite
  <2>2. StartsTo(l, a) \subseteq StartsTo(l, b)
    <3> SUFFICES ASSUME NEW u \in StartsTo(l, a) PROVE u \in StartsTo(l, b)
      OBVIOUS
    <3>1. u \in Starts(l) /\ u <= a /\ u \in Nat
      BY <2>1 DEF StartsTo
    <3>2. u <= b
      BY <1>2, <3>1
    <3> QED BY <3>1, <3>2 DEF StartsTo
  <2>3. b \in StartsTo(l, b) /\ b \notin StartsTo(l, a)
    BY <1>2 DEF StartsTo
  <2>4. IsFiniteSet(StartsTo(l, b))
    BY StartsFinite
  <2> QED BY <1>2, <2>2, <2>3, <2>4, FS_Subset
<1>3. ~(s < t)
  BY <1>1, <1>2
<1>4. ~(t < s)
  BY <1>1, <1>2
<1> QED BY <1>1, <1>3, <1>4

(* The k-th word of a sequence runs from s to e.                           *)
IsWord(l, k, s, e) ==
  /\ s \in Starts(l) /\ Cardinality(StartsTo(l, s)) = k
  /\ e \in s .. Len(l)
  /\ e = Len(l) \/ l[e + 1] = Space
  /\ \A f \in s .. e : l[f] # Space

(* Word finds the word that does.                                          *)
LEMMA WordIs ==
  ASSUME NEW S, NEW l \in Seq(S), NEW k, NEW s, NEW e, IsWord(l, k, s, e)
  PROVE  Word(l, k) = SubSeq(l, s, e)
<1>1. s \in Nat /\ e \in Nat /\ e <= Len(l) /\ s <= e /\ Len(l) \in Nat
  BY StartsFinite DEF IsWord
<1> DEFINE P(x) == Cardinality({t \in Starts(l) : t <= x}) = k
           x == CHOOSE x \in Starts(l) : P(x)
           Q(y) == (y = Len(l) \/ l[y + 1] = Space) /\ \A f \in x .. y : l[f] # Space
           y == CHOOSE y \in x .. Len(l) : Q(y)
<1>2. Word(l, k) = SubSeq(l, x, y)
  BY Zenon DEF Word
<1>3. s \in Starts(l) /\ P(s)
  BY DEF IsWord, StartsTo
<1>4. x \in Starts(l) /\ P(x)
  BY <1>3, Zenon
<1>5. Cardinality(StartsTo(l, s)) = Cardinality(StartsTo(l, x))
  BY <1>3, <1>4 DEF StartsTo
<1> HIDE DEF P, x
<1>6. s = x
  BY <1>3, <1>4, <1>5, SameNumber
<1>7. e \in x .. Len(l) /\ Q(e)
  BY <1>6 DEF IsWord
<1>8. y \in x .. Len(l) /\ Q(y)
  BY <1>7, Zenon
<1> HIDE DEF y
<1>9. y \in Nat /\ y >= s /\ y <= Len(l)
  BY <1>1, <1>6, <1>8
<1>10. ~(y < e)
  <2> SUFFICES ASSUME y < e PROVE FALSE
    OBVIOUS
  <2>1. y # Len(l) /\ y + 1 \in s .. e
    BY <1>1, <1>9
  <2> QED BY <1>8, <2>1 DEF IsWord
<1>11. ~(e < y)
  <2> SUFFICES ASSUME e < y PROVE FALSE
    OBVIOUS
  <2>1. e # Len(l) /\ e + 1 \in x .. y
    BY <1>1, <1>6, <1>9
  <2> QED BY <1>7, <1>8, <2>1
<1>12. y = e
  BY <1>1, <1>9, <1>10, <1>11
<1> QED BY <1>2, <1>6, <1>12

(* The string at an address ends before the first terminator.              *)
LEMMA StringIs ==
  ASSUME NEW b \in Buffer, input = b, NEW a \in Nat \ {0}, NEW e \in Nat, a <= e, e <= MaxLine,
         b[e + 1] = Nul, \A f \in a .. e : b[f] # Nul
  PROVE  Terminated(a) = SubSeq(b, a, e + 1) /\ String(a) = SubSeq(b, a, e)
<1>0. b \in Seq(Letter \cup {Space, Nul}) /\ Len(b) = MaxLine + 1 /\ MaxLine \in Nat
  BY BufferFacts, SizeAssumption
<1> DEFINE P(x) == b[x] = Nul /\ \A f \in a .. x - 1 : b[f] # Nul
           x == CHOOSE x \in a .. Len(b) : P(x)
<1>1. Terminated(a) = SubSeq(b, a, x)
  BY Zenon DEF Terminated
<1>2. e + 1 \in a .. Len(b) /\ P(e + 1)
  BY <1>0
<1>3. x \in a .. Len(b) /\ P(x)
  BY <1>2, Zenon
<1> HIDE DEF x
<1>4. x \in Nat /\ ~(x < e + 1) /\ ~(e + 1 < x)
  <2>1. x \in Nat /\ x >= a
    BY <1>0, <1>3
  <2>2. ASSUME x < e + 1 PROVE FALSE
    <3>1. x \in a .. e
      BY <2>1, <2>2
    <3> QED BY <1>3, <3>1
  <2>3. ASSUME e + 1 < x PROVE FALSE
    <3>1. e + 1 \in a .. x - 1
      BY <2>1, <2>3
    <3> QED BY <1>3, <3>1
  <2> QED BY <2>1, <2>2, <2>3
<1>5. x = e + 1
  BY <1>4
<1>6. Terminated(a) = SubSeq(b, a, e + 1)
  BY <1>1, <1>5
<1> DEFINE T == SubSeq(b, a, e + 1)
<1>7. /\ T \in Seq(Letter \cup {Space, Nul}) /\ Len(T) = e + 2 - a
      /\ \A i \in 1 .. e + 2 - a : T[i] = b[a + i - 1]
  <2>1. a \in 1 .. Len(b) + 1 /\ e + 1 \in a - 1 .. Len(b)
    BY <1>0
  <2>2. Len(T) = (e + 1) - a + 1 /\ \A i \in 1 .. (e + 1) - a + 1 : T[i] = b[a + i - 1]
    BY <1>0, <2>1, SubSeqProperties
  <2>3. T \in Seq(Letter \cup {Space, Nul})
    BY <1>0, <2>1, SubSeqProperties
  <2>4. (e + 1) - a + 1 = e + 2 - a
    OBVIOUS
  <2> QED BY <2>2, <2>3, <2>4
<1>8. String(a) = SubSeq(T, 1, Len(T) - 1)
  BY <1>6, Zenon DEF String
<1> HIDE DEF T
<1>9. SubSeq(T, 1, Len(T) - 1) = SubSeq(b, a, e)
  <2>1. PICK n \in Nat : n = e + 1 - a
    BY <1>0
  <2>2. Len(T) - 1 = n /\ n <= Len(T) /\ Len(T) \in Nat /\ e = a + n - 1
    BY <1>7, <2>1
  <2>3. SubSeq(T, 1, n) = [i \in 1 .. n |-> T[i]]
    <3>1. SubSeq(T, 1, n) = [i \in 1 .. (1 + n) - 1 |-> T[i + 1 - 1]]
      BY <1>7, <2>2
    <3> QED BY <3>1
  <2>4. SubSeq(b, a, e) = [i \in 1 .. n |-> b[a + i - 1]]
    BY <1>0, <2>1, <2>2
  <2>5. \A i \in 1 .. n : T[i] = b[a + i - 1]
    BY <1>7, <2>2
  <2>6. [i \in 1 .. n |-> T[i]] = [i \in 1 .. n |-> b[a + i - 1]]
    BY <2>5
  <2> QED BY <2>2, <2>3, <2>4, <2>6
<1> QED BY <1>6, <1>8, <1>9

(* Moving on by one position meets at most one word.                       *)
LEMMA StartsStep ==
  ASSUME NEW S, NEW l \in Seq(S), NEW s \in Int
  PROVE  /\ s \notin Starts(l) => StartsTo(l, s) = StartsTo(l, s - 1)
         /\ s \in Starts(l) => Cardinality(StartsTo(l, s)) = Cardinality(StartsTo(l, s - 1)) + 1
<1>1. \A t \in Starts(l) : t \in Nat
  BY StartsFinite
<1>2. ASSUME s \notin Starts(l) PROVE StartsTo(l, s) = StartsTo(l, s - 1)
  <2>1. \A t \in Starts(l) : t <= s <=> t <= s - 1
    <3> TAKE t \in Starts(l)
    <3>1. t \in Nat /\ t # s
      BY <1>1, <1>2
    <3> QED BY <3>1
  <2> QED BY <2>1 DEF StartsTo
<1>3. ASSUME s \in Starts(l) PROVE Cardinality(StartsTo(l, s)) = Cardinality(StartsTo(l, s - 1)) + 1
  <2>1. \A t \in Starts(l) : t <= s <=> (t <= s - 1 \/ t = s)
    <3> TAKE t \in Starts(l)
    <3>1. t \in Nat
      BY <1>1
    <3> QED BY <3>1
  <2>2. StartsTo(l, s) = StartsTo(l, s - 1) \cup {s}
    BY <1>3, <2>1 DEF StartsTo
  <2>3. s \notin StartsTo(l, s - 1)
    <3>1. ~(s <= s - 1)
      OBVIOUS
    <3> QED BY <3>1 DEF StartsTo
  <2>4. IsFiniteSet(StartsTo(l, s - 1))
    BY StartsFinite
  <2> QED BY <2>2, <2>3, <2>4, FS_AddElement
<1> QED BY <1>2, <1>3

(* At the end of a sequence all its words have begun, at the beginning     *)
(* none.                                                                   *)
LEMMA StartsEnds ==
  ASSUME NEW S, NEW l \in Seq(S)
  PROVE  StartsTo(l, Len(l)) = Starts(l) /\ StartsTo(l, Len(l) + 1) = Starts(l) /\ StartsTo(l, 0) = {}
<1>1. \A t \in Starts(l) : t \in Nat /\ t <= Len(l) /\ t <= Len(l) + 1 /\ ~(t <= 0)
  BY StartsFinite
<1> QED BY <1>1 DEF StartsTo

(* Sequences that agree between two positions have the same part there.    *)
LEMMA SamePart ==
  ASSUME NEW s, NEW t, NEW a \in Nat, NEW e \in Nat, \A f \in a .. e : s[f] = t[f]
  PROVE  SubSeq(s, a, e) = SubSeq(t, a, e)
<1>1. SubSeq(s, a, e) = [i \in 1 .. e - a + 1 |-> s[a + i - 1]]
  BY DEF SubSeq
<1>2. SubSeq(t, a, e) = [i \in 1 .. e - a + 1 |-> t[a + i - 1]]
  BY DEF SubSeq
<1>3. \A i \in 1 .. e - a + 1 : a + i - 1 \in a .. e
  OBVIOUS
<1> QED BY <1>1, <1>2, <1>3

(* What argv points to is the word of the line, behind it a terminator.    *)
LEMMA CutWord ==
  ASSUME ParseTypeOK, ArgvInv, NEW k \in DOMAIN argv, WordCut(k)
  PROVE  /\ String(argv[k]) = Word(line, k)
         /\ Word(line, k) \in Seq(Letter) /\ Word(line, k) # <<>>
         /\ Terminated(argv[k]) = Append(Word(line, k), Nul)
<1>1. PICK l \in Line, b \in Buffer, a \in Nat \ {0} :
        l = line /\ b = input /\ a = argv[k] /\ a \in Starts(l) /\ Cardinality(StartsTo(l, a)) = k
  <2>1. argv[k] \in Starts(line) /\ Cardinality(StartsTo(line, argv[k])) = k
    BY DEF ArgvInv
  <2>2. line \in Line /\ input \in Buffer
    BY DEF ParseTypeOK
  <2>3. Starts(line) \subseteq 1 .. Len(line) /\ Len(line) \in Nat
    BY <2>2, LineFacts, StartsFinite
  <2> QED BY <2>1, <2>2, <2>3
<1>2. l \in Seq(Letter \cup {Space}) /\ Len(l) \in Nat /\ Len(l) <= MaxLine /\ MaxLine \in Nat
  BY LineFacts, SizeAssumption
<1>3. PICK e \in a .. Len(l) :
        /\ \A f \in a .. e : l[f] # Space /\ b[f] = l[f]
        /\ e = Len(l) \/ l[e + 1] = Space
        /\ b[e + 1] = Nul
  BY <1>1 DEF WordCut
<1>4. IsWord(l, k, a, e)
  BY <1>1, <1>3 DEF IsWord
<1>5. Word(l, k) = SubSeq(l, a, e)
  BY <1>2, <1>4, WordIs
<1>6. e \in Nat /\ a <= e /\ e <= MaxLine
  BY <1>2
<1>7. \A f \in a .. e : b[f] # Nul /\ l[f] \in Letter
  <2> TAKE f \in a .. e
  <2>1. f \in 1 .. Len(l)
    BY <1>2, <1>6
  <2>2. l[f] \in Letter \cup {Space} /\ l[f] # Nul
    BY <2>1, LineFacts
  <2> QED BY <1>3, <2>2
<1>8. Terminated(a) = SubSeq(b, a, e + 1) /\ String(a) = SubSeq(b, a, e)
  BY <1>1, <1>3, <1>6, <1>7, StringIs
<1>9. SubSeq(b, a, e) = SubSeq(l, a, e)
  BY <1>3, <1>6, SamePart
<1>10. SubSeq(l, a, e) \in Seq(Letter) /\ Len(SubSeq(l, a, e)) = e - a + 1 /\ Len(SubSeq(l, a, e)) # 0
  BY <1>6, <1>7, SubSeqProperties
<1>11. SubSeq(b, a, e + 1) = Append(SubSeq(b, a, e), Nul)
  <2>1. SubSeq(b, a, e) = [i \in 1 .. e - a + 1 |-> b[a + i - 1]] /\ Len(SubSeq(b, a, e)) = e - a + 1
    BY <1>6, <1>9, <1>10 DEF SubSeq
  <2>2. SubSeq(b, a, e + 1) = [i \in 1 .. e - a + 2 |-> b[a + i - 1]]
    <3>1. SubSeq(b, a, e + 1) = [i \in 1 .. (e + 1) - a + 1 |-> b[a + i - 1]]
      BY DEF SubSeq
    <3>2. (e + 1) - a + 1 = e - a + 2
      BY <1>6
    <3> QED BY <3>1, <3>2
  <2>3. PICK n \in Nat : n = e - a + 1
    BY <1>6
  <2>4. b[a + (n + 1) - 1] = Nul /\ e - a + 2 = n + 1
    BY <1>3, <1>6, <2>3
  <2>5. Append(SubSeq(b, a, e), Nul) = [i \in 1 .. n + 1 |-> IF i <= n THEN b[a + i - 1] ELSE Nul]
    <3>1. Append(SubSeq(b, a, e), Nul) = [i \in 1 .. n + 1 |-> IF i <= n THEN SubSeq(b, a, e)[i] ELSE Nul]
      <4>1. SubSeq(b, a, e) \in Seq(Letter)
        BY <1>9, <1>10
      <4> QED BY <2>1, <2>3, <4>1
    <3>2. \A i \in 1 .. n + 1 : i <= n => SubSeq(b, a, e)[i] = b[a + i - 1]
      BY <2>1, <2>3
    <3> QED BY <3>1, <3>2
  <2>6. \A i \in 1 .. n + 1 : b[a + i - 1] = IF i <= n THEN b[a + i - 1] ELSE Nul
    <3> TAKE i \in 1 .. n + 1
    <3>1. i <= n \/ i = n + 1
      OBVIOUS
    <3> QED BY <2>4, <3>1
  <2> QED BY <2>2, <2>4, <2>5, <2>6
<1>12. SubSeq(l, a, e) # <<>>
  BY <1>10
<1>13. /\ String(a) = Word(l, k) /\ Word(l, k) \in Seq(Letter) /\ Word(l, k) # <<>>
       /\ Terminated(a) = Append(Word(l, k), Nul)
  BY <1>5, <1>8, <1>9, <1>10, <1>11, <1>12, Zenon
<1> QED BY <1>1, <1>13, Zenon

(* str_eq tells whether two strings are equal.                             *)
LEMMA StrEq ==
  ASSUME NEW w \in Seq(Letter), NEW v \in Seq(Letter)
  PROVE  str_eq(Append(w, Nul), Append(v, Nul)) <=> w = v
<1> DEFINE a == Append(w, Nul)  b == Append(v, Nul)  n == Len(w)  m == Len(v)
           Stop(k) == (a[k] = Nul \/ a[k] # b[k]) /\ \A x \in 1 .. k - 1 : a[x] # Nul /\ a[x] = b[x]
           y == FirstStop(a, b)
<1>1. /\ n \in Nat /\ m \in Nat /\ Len(a) = n + 1 /\ Len(b) = m + 1 /\ a[n + 1] = Nul /\ b[m + 1] = Nul
      /\ \A k \in 1 .. n : a[k] = w[k] /\ w[k] \in Letter /\ a[k] # Nul
      /\ \A k \in 1 .. m : b[k] = v[k] /\ v[k] \in Letter /\ b[k] # Nul
  BY SymbolAssumption
<1> HIDE DEF a, b, n, m
<1>2. \E k \in 1 .. Len(a) : Stop(k)
  <2> DEFINE T == {k \in 1 .. n + 1 : a[k] = Nul \/ a[k] # b[k]}
  <2>1. T \subseteq Nat /\ n + 1 \in T
    BY <1>1
  <2>2. PICK k \in T : \A z \in T : k <= z
    BY <2>1, Least
  <2>3. ASSUME NEW x \in 1 .. k - 1 PROVE a[x] # Nul /\ a[x] = b[x]
    <3>1. k \in Nat /\ k <= n + 1 /\ x \in 1 .. n + 1 /\ ~(k <= x)
      BY <1>1, <2>1
    <3> QED BY <2>2, <3>1
  <2> QED BY <1>1, <2>3
<1>3. y \in 1 .. n + 1 /\ Stop(y)
  <2>1. y \in 1 .. Len(a) /\ Stop(y)
    BY <1>2, Zenon DEF FirstStop
  <2> QED BY <1>1, <2>1
<1>4. str_eq(a, b) <=> a[y] = b[y]
  BY DEF str_eq
<1>5. ASSUME w = v PROVE str_eq(a, b)
  BY <1>4, <1>5 DEF a, b
<1> HIDE DEF y
<1>6. ASSUME str_eq(a, b) PROVE w = v
  <2>1. a[y] = Nul /\ b[y] = Nul
    BY <1>3, <1>4, <1>6
  <2>2. y \in Nat /\ y = n + 1
    BY <1>1, <1>3, <2>1
  <2>3. ~(y < m + 1)
    <3> SUFFICES ASSUME y < m + 1 PROVE FALSE
      OBVIOUS
    <3>1. y \in 1 .. m
      BY <1>1, <1>3, <2>2
    <3> QED BY <1>1, <2>1, <3>1
  <2>4. ~(m + 1 < y)
    <3> SUFFICES ASSUME m + 1 < y PROVE FALSE
      OBVIOUS
    <3>1. m + 1 \in 1 .. y - 1
      BY <1>1, <2>2
    <3> QED BY <1>1, <1>3, <3>1
  <2>5. n = m
    BY <1>1, <2>2, <2>3, <2>4
  <2>6. \A k \in 1 .. n : w[k] = v[k]
    <3> TAKE k \in 1 .. n
    <3>1. k \in 1 .. y - 1 /\ k \in 1 .. m
      BY <1>1, <2>2, <2>5
    <3> QED BY <1>1, <1>3, <3>1
  <2> QED BY <2>5, <2>6 DEF n, m
<1> QED BY <1>5, <1>6 DEF a, b

---------------------------------------------------------------------------
(* What a round of the scan leaves of the invariant when it changes        *)
(* neither the line nor the words found.                                   *)
LEMMA SameWords ==
  ASSUME ArgvInv, UNCHANGED <<line, input, argv>>, pc' # "token", pc # "token"
  PROVE  ArgvInv'
  BY DEF ArgvInv, WordCut

(* A new line.                                                             *)
LEMMA ReadLineInv ==
  ASSUME ParseInv, NEW l \in Line, ReadLine(l)
  PROVE  ParseInv'
<1>1. /\ pc' = "start" /\ line' = l /\ p' = 1 /\ argv' = <<>> /\ ran' = "nothing"
      /\ input' = [k \in DOMAIN input |->
                     IF k <= Len(l) THEN l[k] ELSE IF k = Len(l) + 1 THEN Nul ELSE input[k]]
  BY DEF ReadLine
<1>2. /\ l \in Seq(Letter \cup {Space}) /\ Len(l) \in Nat /\ Len(l) <= MaxLine /\ MaxLine \in Nat
      /\ \A k \in 1 .. Len(l) : l[k] \in Letter \cup {Space}
  BY LineFacts, SizeAssumption
<1>3. input \in Buffer /\ DOMAIN input = 1 .. MaxLine + 1
  BY BufferFacts DEF ParseInv, ParseTypeOK
<1>4. input' \in Buffer
  <2> SUFFICES ASSUME NEW k \in 1 .. MaxLine + 1
               PROVE  (IF k <= Len(l) THEN l[k] ELSE IF k = Len(l) + 1 THEN Nul ELSE input[k])
                        \in Letter \cup {Space, Nul}
    BY <1>1, <1>3 DEF Buffer
  <2> QED BY <1>2, <1>3 DEF Buffer
<1>5. ParseTypeOK'
  BY <1>1, <1>2, <1>4, SizeAssumption DEF ParseTypeOK
<1>6. AheadInv'
  <2>1. \A k \in 1 .. Len(l) : k \in DOMAIN input /\ k <= Len(l)
    BY <1>2, <1>3
  <2>2. Len(l) + 1 \in DOMAIN input /\ ~(Len(l) + 1 <= Len(l))
    BY <1>2, <1>3
  <2> QED BY <1>1, <2>1, <2>2 DEF AheadInv
<1>7. ArgvInv'
  BY <1>1 DEF ArgvInv
<1> QED BY <1>1, <1>5, <1>6, <1>7 DEF ParseInv, ScanInv, RanInv, DispatchCorrect

(* In the scan, a terminator at the pointer means the end of the line.     *)
LEMMA AtTheEnd ==
  ASSUME ParseInv, pc \in {"start", "loop", "skip", "token"}
  PROVE  /\ line \in Seq(Letter \cup {Space}) /\ Len(line) \in Nat /\ Len(line) <= MaxLine
         /\ p \in Nat \ {0} /\ p <= Len(line) + 1
         /\ input[p] = Nul <=> p = Len(line) + 1
         /\ p # Len(line) + 1 => p \in 1 .. Len(line) /\ input[p] = line[p] /\ line[p] \in Letter \cup {Space}
         /\ input[p] \in Letter \cup {Space, Nul}
<1>1. line \in Line /\ p \in 1 .. Len(line) + 1
  BY DEF ParseInv, ParseTypeOK
<1>2. /\ line \in Seq(Letter \cup {Space}) /\ Len(line) \in Nat /\ Len(line) <= MaxLine
      /\ \A k \in 1 .. Len(line) : line[k] \in Letter \cup {Space} /\ line[k] # Nul
  BY <1>1, LineFacts
<1>3. input[Len(line) + 1] = Nul /\ \A k \in p .. Len(line) : input[k] = line[k]
  BY DEF ParseInv, AheadInv
<1>4. p # Len(line) + 1 => p \in p .. Len(line) /\ p \in 1 .. Len(line)
  BY <1>1, <1>2
<1> QED BY <1>1, <1>2, <1>3, <1>4

(* An empty line, or one without words.                                    *)
LEMMA EmptyLineInv ==
  ASSUME ParseInv, EmptyLine
  PROVE  ParseInv'
<1>1. pc' = "prompt" /\ UNCHANGED <<line, input, p, argv, ran, echoed>> /\ pc \in {"start", "parsed"}
  BY DEF EmptyLine
<1>2. ParseTypeOK' /\ AheadInv' /\ ArgvInv' /\ RanInv'
  BY <1>1, SameWords DEF ParseInv, ParseTypeOK, AheadInv, RanInv
<1>3. line \in Seq(Letter \cup {Space}) /\ Len(line) \in Nat
  BY LineFacts DEF ParseInv, ParseTypeOK
<1>4. argv = <<>> /\ Starts(line) = {}
  <2>1. CASE pc = "start"
    <3>1. p = 1 /\ argv = <<>> /\ input[1] = Nul
      BY <2>1 DEF ParseInv, ScanInv, EmptyLine
    <3>2. Len(line) = 0
      BY <1>3, <2>1, <3>1, AtTheEnd
    <3>3. Starts(line) \subseteq 1 .. 0
      BY <1>3, <3>2, StartsFinite
    <3> QED BY <3>1, <3>3
  <2>2. CASE pc = "parsed"
    <3>1. argv = <<>> /\ Len(argv) = 0
      BY <2>2 DEF EmptyLine
    <3>2. IsFiniteSet(Starts(line)) /\ Cardinality(Starts(line)) \in Nat
      BY <1>3, StartsFinite
    <3>3. Len(argv) = IF Cardinality(Starts(line)) < MaxArgs THEN Cardinality(Starts(line)) ELSE MaxArgs
      BY <2>2 DEF ParseInv, ScanInv
    <3>4. Cardinality(Starts(line)) = 0
      BY <3>1, <3>2, <3>3, SizeAssumption
    <3> QED BY <3>1, <3>2, <3>4, FS_EmptySet
  <2> QED BY <1>1, <2>1, <2>2
<1>5. ran' = "nothing"
  BY <1>1 DEF ParseInv, RanInv
<1>6. Len(argv) = 0 /\ Cardinality(Starts(line)) = 0
  BY <1>4, FS_EmptySet
<1>7. ScanInv'
  BY <1>1, <1>6, SizeAssumption DEF ScanInv
<1>8. DispatchCorrect'
  BY <1>1, <1>4, <1>5 DEF DispatchCorrect
<1> QED BY <1>2, <1>7, <1>8 DEF ParseInv

(* The beginning of the scan, and the test of its outer loop.              *)
LEMMA LoopInv ==
  ASSUME ParseInv, StartParse \/ NextWord
  PROVE  ParseInv'
<1>1. UNCHANGED <<line, input, p, argv, ran, echoed>> /\ pc \in {"start", "loop"} /\ pc' \in {"loop", "skip", "parsed"}
  BY DEF StartParse, NextWord
<1>2. ParseTypeOK' /\ AheadInv' /\ ArgvInv' /\ RanInv' /\ DispatchCorrect'
  BY <1>1, SameWords DEF ParseInv, ParseTypeOK, AheadInv, RanInv, DispatchCorrect
<1>3. /\ line \in Seq(Letter \cup {Space}) /\ Len(line) \in Nat /\ p \in Nat \ {0}
      /\ input[p] = Nul <=> p = Len(line) + 1
  BY <1>1, AtTheEnd
<1>4. Len(argv) \in Nat /\ Len(argv) <= MaxArgs /\ MaxArgs \in Nat
  BY SizeAssumption DEF ParseInv, ParseTypeOK, ArgvInv
<1>5. CASE StartParse
  <2>1. pc' = "loop" /\ p = 1 /\ argv = <<>>
    BY <1>5 DEF StartParse, ParseInv, ScanInv
  <2>2. Cardinality(StartsTo(line, p - 1)) = Len(argv)
    <3>1. p - 1 = 0 /\ Len(argv) = 0
      BY <2>1
    <3> QED BY <1>3, <3>1, StartsEnds, FS_EmptySet
  <2>3. ScanInv'
    BY <1>1, <2>1, <2>2 DEF ScanInv
  <2> QED BY <1>2, <2>3 DEF ParseInv
<1>6. CASE NextWord
  <2>1. /\ p = 1 \/ p = Len(line) + 1 \/ line[p - 1] = Space
        /\ Cardinality(StartsTo(line, p - 1)) = Len(argv)
    BY <1>6 DEF NextWord, ParseInv, ScanInv
  <2>2. CASE MoreWords
    <3>1. pc' = "skip" /\ Len(argv) < MaxArgs
      BY <1>6, <2>2 DEF NextWord, MoreWords
    <3>2. ScanInv'
      BY <1>1, <2>1, <3>1 DEF ScanInv
    <3> QED BY <1>2, <3>2 DEF ParseInv
  <2>3. CASE ~MoreWords
    <3>1. pc' = "parsed" /\ (p = Len(line) + 1 \/ Len(argv) = MaxArgs)
      BY <1>3, <1>4, <1>6, <2>3 DEF NextWord, MoreWords
    <3>2. Cardinality(Starts(line)) \in Nat /\ Len(argv) <= Cardinality(Starts(line))
      BY <1>3, <2>1, StartsFinite
    <3>3. p = Len(line) + 1 => Len(argv) = Cardinality(Starts(line))
      <4> SUFFICES ASSUME p = Len(line) + 1 PROVE Len(argv) = Cardinality(Starts(line))
        OBVIOUS
      <4>1. p - 1 = Len(line)
        BY <1>3
      <4> QED BY <1>3, <2>1, <4>1, StartsEnds
    <3>4. Len(argv) = IF Cardinality(Starts(line)) < MaxArgs THEN Cardinality(Starts(line)) ELSE MaxArgs
      BY <1>4, <3>1, <3>2, <3>3
    <3>5. ScanInv'
      BY <1>1, <3>1, <3>4 DEF ScanInv
    <3> QED BY <1>2, <3>5 DEF ParseInv
  <2> QED BY <2>2, <2>3
<1> QED BY <1>5, <1>6

(* A space before a word, and the end of the line instead of one.          *)
LEMMA SkipInv ==
  ASSUME ParseInv, SkipSpace \/ TrailingSpaces
  PROVE  ParseInv'
<1>1. pc = "skip" /\ UNCHANGED <<line, input, argv, ran, echoed>>
  BY DEF SkipSpace, TrailingSpaces
<1>2. /\ line \in Seq(Letter \cup {Space}) /\ Len(line) \in Nat /\ p \in Nat \ {0} /\ p <= Len(line) + 1
      /\ input[p] = Nul <=> p = Len(line) + 1
      /\ p # Len(line) + 1 => p \in 1 .. Len(line) /\ input[p] = line[p]
  BY <1>1, AtTheEnd
<1>3. Cardinality(StartsTo(line, p - 1)) = Len(argv) /\ Len(argv) < MaxArgs
  BY <1>1 DEF ParseInv, ScanInv
<1>4. CASE SkipSpace
  <2>1. pc' = "skip" /\ p' = p + 1 /\ input[p] = Space
    BY <1>1, <1>4 DEF SkipSpace
  <2>2. p \in 1 .. Len(line) /\ line[p] = Space
    BY <1>2, <2>1, SymbolAssumption
  <2>3. ParseTypeOK' /\ AheadInv' /\ RanInv' /\ DispatchCorrect'
    BY <1>1, <1>2, <2>1, <2>2 DEF ParseInv, ParseTypeOK, AheadInv, RanInv, DispatchCorrect
  <2>4. ArgvInv'
    BY <1>1, <2>1, SameWords DEF ParseInv
  <2>5. p \notin Starts(line)
    BY <2>2 DEF Starts
  <2>6. StartsTo(line, p) = StartsTo(line, p - 1)
    BY <1>2, <2>5, StartsStep
  <2>7. p' - 1 = p
    BY <1>2, <2>1
  <2>8. ScanInv'
    BY <1>1, <1>3, <2>1, <2>2, <2>6, <2>7 DEF ScanInv
  <2> QED BY <2>3, <2>4, <2>8 DEF ParseInv
<1>5. CASE TrailingSpaces
  <2>1. pc' = "parsed" /\ p' = p /\ input[p] = Nul
    BY <1>5 DEF TrailingSpaces
  <2>2. p - 1 = Len(line)
    BY <1>2, <2>1
  <2>3. Cardinality(Starts(line)) = Len(argv)
    BY <1>2, <1>3, <2>2, StartsEnds
  <2>4. ParseTypeOK' /\ AheadInv' /\ RanInv' /\ DispatchCorrect'
    BY <1>1, <2>1 DEF ParseInv, ParseTypeOK, AheadInv, RanInv, DispatchCorrect
  <2>5. ArgvInv'
    BY <1>1, <2>1, SameWords DEF ParseInv
  <2>6. ScanInv'
    BY <1>1, <1>3, <2>1, <2>3 DEF ScanInv
  <2> QED BY <2>4, <2>5, <2>6 DEF ParseInv
<1> QED BY <1>4, <1>5

(* The first letter of a word.                                             *)
LEMMA StartTokenInv ==
  ASSUME ParseInv, StartToken
  PROVE  ParseInv'
<1>1. /\ pc = "skip" /\ pc' = "token" /\ argv' = Append(argv, p) /\ input[p] \in Letter
      /\ UNCHANGED <<line, input, p, ran, echoed>>
  BY DEF StartToken
<1>2. /\ line \in Seq(Letter \cup {Space}) /\ Len(line) \in Nat /\ p \in Nat \ {0} /\ p <= Len(line) + 1
      /\ input[p] = Nul <=> p = Len(line) + 1
      /\ p # Len(line) + 1 => p \in 1 .. Len(line) /\ input[p] = line[p]
  BY <1>1, AtTheEnd
<1>3. p \in 1 .. Len(line) /\ line[p] \in Letter /\ line[p] # Space
  BY <1>1, <1>2, SymbolAssumption
<1>4. /\ p = 1 \/ line[p - 1] = Space
      /\ Cardinality(StartsTo(line, p - 1)) = Len(argv) /\ Len(argv) < MaxArgs
  BY <1>1, <1>2, <1>3 DEF ParseInv, ScanInv
<1>5. p \in Starts(line)
  BY <1>2, <1>3, <1>4 DEF Starts
<1>6. Cardinality(StartsTo(line, p)) = Len(argv) + 1
  BY <1>2, <1>4, <1>5, StartsStep
<1>7. /\ argv \in Seq(Nat) /\ Len(argv) \in Nat
      /\ \A k \in DOMAIN argv : argv[k] \in Starts(line) /\ Cardinality(StartsTo(line, argv[k])) = k /\ WordCut(k)
  BY <1>1 DEF ParseInv, ArgvInv
<1>8. PICK n \in Nat : n = Len(argv)
  BY <1>7
<1>9. /\ argv' \in Seq(Nat) /\ Len(argv') = n + 1 /\ argv'[n + 1] = p /\ DOMAIN argv' = 1 .. n + 1 /\ DOMAIN argv = 1 .. n
      /\ \A k \in 1 .. n : argv'[k] = argv[k]
  BY <1>1, <1>2, <1>7, <1>8
<1>10. ArgvInv'
  <2>1. ASSUME NEW k \in 1 .. n + 1
        PROVE  /\ argv'[k] \in Starts(line) /\ Cardinality(StartsTo(line, argv'[k])) = k
               /\ k < n + 1 => WordCut(k)'
    <3>1. CASE k = n + 1
      BY <1>5, <1>6, <1>8, <1>9, <3>1
    <3>2. CASE k \in 1 .. n
      <4>1. argv'[k] = argv[k] /\ WordCut(k) /\ argv[k] \in Starts(line) /\ Cardinality(StartsTo(line, argv[k])) = k
        BY <1>7, <1>9, <3>2
      <4> QED BY <1>1, <4>1 DEF WordCut
    <3> QED BY <3>1, <3>2
  <2>2. line' = line
    BY <1>1
  <2>3. \A k \in DOMAIN argv' :
          /\ argv'[k] \in Starts(line') /\ Cardinality(StartsTo(line', argv'[k])) = k
          /\ k < Len(argv') => WordCut(k)'
    BY <1>9, <2>1, <2>2
  <2>4. pc' = "token" /\ argv' \in Seq(Nat)
    BY <1>1, <1>9
  <2>5. \A k \in DOMAIN argv' : (pc' = "token" => k < Len(argv')) => WordCut(k)'
    BY <2>3, <2>4, Zenon
  <2> QED BY <2>3, <2>4, <2>5, Zenon DEF ArgvInv
<1>11. ParseTypeOK'
  <2>1. \A k \in DOMAIN argv' : argv'[k] \in DOMAIN line
    <3> TAKE k \in DOMAIN argv'
    <3>1. argv'[k] \in Starts(line)
      BY <1>1, <1>10 DEF ArgvInv
    <3> QED BY <3>1 DEF Starts
  <2>2. Len(argv') <= MaxArgs
    BY <1>4, <1>8, <1>9, SizeAssumption
  <2> QED BY <1>1, <2>1, <2>2 DEF ParseInv, ParseTypeOK
<1>12. AheadInv' /\ RanInv' /\ DispatchCorrect'
  BY <1>1 DEF ParseInv, AheadInv, RanInv, DispatchCorrect
<1>13. ScanInv'
  <2>1. argv' # <<>>
    BY <1>9
  <2>2. argv'[Len(argv')] = p /\ Cardinality(StartsTo(line, p)) = Len(argv')
    BY <1>6, <1>8, <1>9
  <2>3. \A f \in argv'[Len(argv')] .. p - 1 : FALSE
    BY <1>2, <2>2
  <2> QED BY <1>1, <1>2, <2>1, <2>2, <2>3 DEF ScanInv
<1> QED BY <1>10, <1>11, <1>12, <1>13 DEF ParseInv

(* A further letter of a word: the next position begins none.              *)
LEMMA SkipTokenInv ==
  ASSUME ParseInv, SkipToken
  PROVE  ParseInv'
<1>1. /\ pc = "token" /\ pc' = "token" /\ p' = p + 1 /\ input[p] \in Letter
      /\ UNCHANGED <<line, input, argv, ran, echoed>>
  BY DEF SkipToken
<1>2. /\ line \in Seq(Letter \cup {Space}) /\ Len(line) \in Nat /\ p \in Nat \ {0} /\ p <= Len(line) + 1
      /\ input[p] = Nul <=> p = Len(line) + 1
      /\ p # Len(line) + 1 => p \in 1 .. Len(line) /\ input[p] = line[p]
  BY <1>1, AtTheEnd
<1>3. p \in 1 .. Len(line) /\ input[p] = line[p] /\ line[p] # Space
  BY <1>1, <1>2, SymbolAssumption
<1>4. p + 1 \notin Starts(line)
  <2>1. p + 1 # 1 /\ (p + 1) - 1 = p
    BY <1>2
  <2> QED BY <1>3, <2>1 DEF Starts
<1>5. StartsTo(line, p + 1) = StartsTo(line, p)
  <2>1. (p + 1) - 1 = p /\ p + 1 \in Int
    BY <1>2
  <2> QED BY <1>2, <1>4, <2>1, StartsStep
<1>6. /\ argv # <<>> /\ argv[Len(argv)] <= p /\ argv[Len(argv)] \in Nat
      /\ Cardinality(StartsTo(line, p)) = Len(argv)
      /\ \A f \in argv[Len(argv)] .. p - 1 : line[f] # Space /\ input[f] = line[f]
  <2>1. argv \in Seq(Nat) /\ argv # <<>>
    BY <1>1 DEF ParseInv, ScanInv, ArgvInv
  <2>2. Len(argv) \in 1 .. Len(argv)
    BY <2>1, EmptySeq
  <2> QED BY <1>1, <2>1, <2>2 DEF ParseInv, ScanInv
<1>7. ScanInv'
  <2>1. \A f \in argv[Len(argv)] .. p : line[f] # Space /\ input[f] = line[f]
    <3> TAKE f \in argv[Len(argv)] .. p
    <3>1. f = p \/ f \in argv[Len(argv)] .. p - 1
      BY <1>2, <1>6
    <3> QED BY <1>3, <1>6, <3>1
  <2>2. p' - 1 = p /\ argv[Len(argv)] <= p'
    BY <1>1, <1>2, <1>6
  <2> QED BY <1>1, <1>5, <1>6, <2>1, <2>2 DEF ScanInv
<1>8. ParseTypeOK' /\ AheadInv' /\ RanInv' /\ DispatchCorrect'
  BY <1>1, <1>2, <1>3 DEF ParseInv, ParseTypeOK, AheadInv, RanInv, DispatchCorrect
<1>9. ArgvInv'
  BY <1>1 DEF ParseInv, ArgvInv, WordCut
<1> QED BY <1>7, <1>8, <1>9 DEF ParseInv

(* The end of a word: the space behind it becomes its terminator, and no   *)
(* word found before is touched.                                           *)
LEMMA EndTokenInv ==
  ASSUME ParseInv, EndToken
  PROVE  ParseInv'
<1>1. /\ pc = "token" /\ pc' = "loop" /\ input[p] \notin Letter /\ UNCHANGED <<line, argv, ran, echoed>>
      /\ \/ input[p] = Space /\ input' = [input EXCEPT ![p] = Nul] /\ p' = p + 1
         \/ input[p] # Space /\ UNCHANGED <<input, p>>
  BY DEF EndToken
<1>2. /\ line \in Seq(Letter \cup {Space}) /\ Len(line) \in Nat /\ Len(line) <= MaxLine
      /\ p \in Nat \ {0} /\ p <= Len(line) + 1
      /\ input[p] = Nul <=> p = Len(line) + 1
      /\ p # Len(line) + 1 => p \in 1 .. Len(line) /\ input[p] = line[p]
      /\ input[p] \in Letter \cup {Space, Nul}
  BY <1>1, AtTheEnd
<1>3. PICK b \in Buffer : b = input
  BY DEF ParseInv, ParseTypeOK
<1>4. b \in [1 .. MaxLine + 1 -> Letter \cup {Space, Nul}] /\ MaxLine \in Nat
  BY SizeAssumption DEF Buffer
<1>5. PICK q \in Nat \ {0}, n \in Nat \ {0}, N \in Nat : q = p /\ n = Len(argv) /\ N = Len(line)
  <2>1. argv \in Seq(Nat) /\ argv # <<>>
    BY <1>1 DEF ParseInv, ScanInv, ArgvInv
  <2>2. Len(argv) \in Nat \ {0}
    BY <2>1, EmptySeq
  <2> QED BY <1>2, <2>2
<1>6. /\ argv[n] <= q /\ argv \in Seq(Nat) /\ DOMAIN argv = 1 .. n /\ argv[n] \in Nat
      /\ Cardinality(StartsTo(line, q)) = n
      /\ \A f \in argv[n] .. q - 1 : line[f] # Space /\ b[f] = line[f]
  <2>1. argv \in Seq(Nat)
    BY DEF ParseInv, ArgvInv
  <2> QED BY <1>1, <1>3, <1>5, <2>1 DEF ParseInv, ScanInv
<1>7. argv[n] \in Starts(line) /\ argv[n] \in 1 .. N /\ line[argv[n]] # Space
  <2>1. argv[n] \in Starts(line)
    BY <1>6 DEF ParseInv, ArgvInv
  <2> QED BY <1>2, <1>5, <2>1 DEF Starts
<1>8. PICK e \in Nat : e = q - 1 /\ e \in argv[n] .. N
  <2>1. argv[n] # q
    BY <1>1, <1>2, <1>5, <1>7, SymbolAssumption
  <2>2. q - 1 \in argv[n] .. N /\ q - 1 \in Nat
    BY <1>2, <1>5, <1>6, <1>7, <2>1
  <2> QED BY <2>2
<1>9. /\ \A k \in 1 .. MaxLine + 1 : k # q => input'[k] = b[k]
      /\ input'[q] = Nul
      /\ q = N + 1 \/ line[q] = Space
      /\ input' \in Buffer
      /\ q \in 1 .. MaxLine + 1
  <2>1. q \in 1 .. MaxLine + 1
    BY <1>2, <1>4, <1>5
  <2>2. CASE input[p] = Space
    <3>1. input' = [b EXCEPT ![q] = Nul] /\ p # Len(line) + 1
      BY <1>1, <1>2, <1>3, <1>5, <2>2, SymbolAssumption
    <3>2. line[q] = Space
      BY <1>2, <1>5, <2>2, <3>1
    <3> QED BY <1>4, <2>1, <3>1, <3>2 DEF Buffer
  <2>3. CASE input[p] # Space
    <3>1. input[p] = Nul /\ input' = b
      BY <1>1, <1>2, <1>3, <2>3
    <3> QED BY <1>2, <1>3, <1>5, <2>1, <3>1
  <2> QED BY <2>2, <2>3
<1>10. p' \in {q, q + 1} /\ p' \in 1 .. N + 1 /\ (p' = q => q = N + 1) /\ (p' = q + 1 => q \in 1 .. N /\ line[q] = Space)
  BY <1>1, <1>2, <1>5, SymbolAssumption
<1>11. ParseTypeOK'
  BY <1>1, <1>5, <1>9, <1>10 DEF ParseInv, ParseTypeOK
<1>12. AheadInv'
  <2>1. input[N + 1] = Nul /\ \A k \in q .. N : input[k] = line[k]
    BY <1>1, <1>5 DEF ParseInv, AheadInv
  <2>2. input'[N + 1] = Nul
    <3>1. N + 1 \in 1 .. MaxLine + 1
      BY <1>2, <1>4, <1>5
    <3> QED BY <1>3, <1>9, <2>1, <3>1
  <2>3. ASSUME NEW k \in p' .. N PROVE input'[k] = line[k]
    <3>1. k # q /\ k \in q .. N /\ k \in 1 .. MaxLine + 1
      BY <1>2, <1>4, <1>5, <1>10
    <3> QED BY <1>3, <1>9, <2>1, <3>1
  <2> QED BY <1>1, <1>5, <2>2, <2>3 DEF AheadInv
<1>13. ASSUME NEW k \in 1 .. n PROVE WordCut(k)'
  <2>1. CASE k = n
    <3>1. \A f \in argv[n] .. e : line[f] # Space /\ input'[f] = line[f]
      <4> TAKE f \in argv[n] .. e
      <4>1. f \in argv[n] .. q - 1 /\ f # q /\ f \in 1 .. MaxLine + 1
        BY <1>2, <1>4, <1>5, <1>7, <1>8
      <4> QED BY <1>6, <1>9, <4>1
    <3>2. e + 1 = q /\ (e = N \/ line[e + 1] = Space) /\ input'[e + 1] = Nul
      BY <1>8, <1>9
    <3> QED BY <1>1, <1>5, <1>8, <2>1, <3>1, <3>2 DEF WordCut
  <2>2. CASE k # n
    <3>1. WordCut(k)
      <4>1. k \in DOMAIN argv /\ k < Len(argv)
        BY <1>5, <1>6, <2>2
      <4> QED BY <4>1 DEF ParseInv, ArgvInv
    <3>2. argv[k] \in 1 .. N
      <4>1. argv[k] \in Starts(line)
        BY <1>6 DEF ParseInv, ArgvInv
      <4> QED BY <1>2, <1>5, <4>1 DEF Starts
    <3>3. PICK x \in argv[k] .. N :
            /\ \A f \in argv[k] .. x : line[f] # Space /\ b[f] = line[f]
            /\ x = N \/ line[x + 1] = Space
            /\ b[x + 1] = Nul
      BY <1>3, <1>5, <3>1 DEF WordCut
    <3>4. x \in 1 .. N /\ x + 1 \in 1 .. MaxLine + 1
      BY <1>2, <1>4, <1>5, <3>2
    <3>5. input'[x + 1] = Nul
      BY <1>9, <3>3, <3>4
    <3>6. \A f \in argv[k] .. x : line[f] # Space /\ input'[f] = line[f]
      <4> TAKE f \in argv[k] .. x
      <4>1. f \in 1 .. N /\ f \in 1 .. MaxLine + 1 /\ line[f] # Space /\ b[f] = line[f]
        BY <1>2, <1>4, <1>5, <3>2, <3>3, <3>4
      <4>2. f # q
        BY <1>9, <4>1
      <4> QED BY <1>9, <4>1, <4>2
    <3> QED BY <1>1, <1>5, <3>3, <3>5, <3>6 DEF WordCut
  <2> QED BY <2>1, <2>2
<1>14. ArgvInv'
  BY <1>1, <1>6, <1>13 DEF ParseInv, ArgvInv
<1>15. ScanInv'
  <2>1. p' = 1 \/ p' = N + 1 \/ line[p' - 1] = Space
    <3>1. CASE p' = q + 1
      <4>1. p' - 1 = q
        BY <3>1
      <4> QED BY <1>10, <3>1, <4>1
    <3>2. CASE p' = q
      BY <1>10, <3>2
    <3> QED BY <1>10, <3>1, <3>2
  <2>2. Cardinality(StartsTo(line, p' - 1)) = n
    <3>1. CASE p' = q + 1
      <4>1. p' - 1 = q
        BY <3>1
      <4> QED BY <1>6, <4>1
    <3>2. CASE p' = q
      <4>1. q = N + 1 /\ p' - 1 = N
        BY <1>10, <3>2
      <4>2. StartsTo(line, N) = Starts(line) /\ StartsTo(line, N + 1) = Starts(line)
        BY <1>2, <1>5, StartsEnds
      <4> QED BY <1>6, <4>1, <4>2
    <3> QED BY <1>10, <3>1, <3>2
  <2> QED BY <1>1, <1>5, <2>1, <2>2 DEF ScanInv
<1>16. RanInv' /\ DispatchCorrect'
  BY <1>1 DEF ParseInv, RanInv, DispatchCorrect
<1> QED BY <1>11, <1>12, <1>14, <1>15, <1>16 DEF ParseInv

---------------------------------------------------------------------------
(* echo.  Where the spaces of a sequence are.                              *)
Spaces(s) == {k \in DOMAIN s : s[k] = Space}

(* s shows the second to the k-th of the words W, single spaces between.   *)
Shows(s, W, k) ==
  /\ s \in Seq(Letter \cup {Space}) /\ s # <<>>
  /\ Cardinality(Starts(s)) = k - 1 /\ Cardinality(Spaces(s)) = k - 2
  /\ \A m \in 2 .. k : \E a \in Nat, e \in Nat : IsWord(s, m - 1, a, e) /\ SubSeq(s, a, e) = W[m]

(* The second word alone.                                                  *)
LEMMA ShowsFirst ==
  ASSUME NEW W, W[2] \in Seq(Letter), W[2] # <<>>
  PROVE  Shows(W[2], W, 2)
<1> DEFINE w == W[2]
<1>1. PICK M \in Nat \ {0} : M = Len(w)
  BY EmptySeq
<1>2. /\ w \in Seq(Letter \cup {Space}) /\ DOMAIN w = 1 .. M
      /\ \A i \in 1 .. M : w[i] \in Letter /\ w[i] # Space
  BY <1>1, SymbolAssumption
<1> HIDE DEF w
<1>3. Starts(w) = {1}
  <2>1. 1 \in Starts(w)
    BY <1>1, <1>2 DEF Starts
  <2>2. ASSUME NEW i \in Starts(w) PROVE i = 1
    <3>1. i \in 1 .. M /\ (i = 1 \/ w[i - 1] = Space)
      BY <1>2 DEF Starts
    <3>2. i # 1 => i - 1 \in 1 .. M
      BY <1>1, <3>1
    <3> QED BY <1>2, <3>1, <3>2
  <2> QED BY <2>1, <2>2
<1>4. Spaces(w) = {}
  BY <1>2 DEF Spaces
<1>5. Cardinality(Starts(w)) = 1 /\ Cardinality(Spaces(w)) = 0
  BY <1>3, <1>4, FS_Singleton, FS_EmptySet
<1>6. IsWord(w, 1, 1, M)
  <2>1. StartsTo(w, 1) = {1}
    BY <1>3 DEF StartsTo
  <2>2. Cardinality(StartsTo(w, 1)) = 1 /\ 1 \in Starts(w)
    BY <1>3, <2>1, FS_Singleton
  <2>3. M \in 1 .. Len(w) /\ M = Len(w)
    BY <1>1
  <2> QED BY <1>2, <2>2, <2>3 DEF IsWord
<1>7. SubSeq(w, 1, M) = w
  BY <1>1, <1>2
<1>8. \A m \in 2 .. 2 : m - 1 = 1 /\ W[m] = w
  BY DEF w
<1>9. \A m \in 2 .. 2 : \E a \in Nat, e \in Nat : IsWord(w, m - 1, a, e) /\ SubSeq(w, a, e) = W[m]
  BY <1>1, <1>6, <1>7, <1>8
<1>10. w # <<>>
  BY <1>1
<1>11. 2 - 1 = 1 /\ 2 - 2 = 0
  OBVIOUS
<1>12. Shows(w, W, 2)
  BY <1>2, <1>5, <1>9, <1>10, <1>11 DEF Shows
<1> QED BY <1>12 DEF w

(* A space and one more word.                                              *)
LEMMA ShowsMore ==
  ASSUME NEW s, NEW W, NEW k \in Nat, k >= 2, Shows(s, W, k),
         NEW w \in Seq(Letter), w # <<>>, w = W[k + 1]
  PROVE  Shows(s \o <<Space>> \o w, W, k + 1)
<1> DEFINE t == s \o <<Space>> \o w
<1>1. PICK N \in Nat \ {0}, M \in Nat \ {0} : N = Len(s) /\ M = Len(w)
  BY EmptySeq DEF Shows
<1>2. /\ s \in Seq(Letter \cup {Space}) /\ DOMAIN s = 1 .. N
      /\ \A i \in 1 .. M : w[i] \in Letter /\ w[i] # Space
  BY <1>1, SymbolAssumption DEF Shows
<1>3. /\ t \in Seq(Letter \cup {Space}) /\ Len(t) = N + 1 + M /\ DOMAIN t = 1 .. N + 1 + M
      /\ \A i \in 1 .. N : t[i] = s[i]
      /\ t[N + 1] = Space
      /\ \A i \in 1 .. M : t[N + 1 + i] = w[i]
  <2> DEFINE u == s \o <<Space>>
  <2>1. /\ u \in Seq(Letter \cup {Space}) /\ Len(u) = N + 1 /\ u[N + 1] = Space
        /\ \A i \in 1 .. N : u[i] = s[i]
    BY <1>1, <1>2
  <2>2. w \in Seq(Letter \cup {Space})
    OBVIOUS
  <2> HIDE DEF u
  <2>3. /\ u \o w \in Seq(Letter \cup {Space}) /\ Len(u \o w) = N + 1 + M
        /\ \A i \in 1 .. N + 1 : (u \o w)[i] = u[i]
        /\ \A i \in 1 .. M : (u \o w)[N + 1 + i] = w[i]
    <3>1. /\ u \o w \in Seq(Letter \cup {Space}) /\ Len(u \o w) = Len(u) + Len(w)
          /\ \A i \in 1 .. Len(u) + Len(w) : (u \o w)[i] = IF i <= Len(u) THEN u[i] ELSE w[i - Len(u)]
      <4>1. u \in Seq(Letter \cup {Space})
        BY <2>1
      <4>2. u \o w \in Seq(Letter \cup {Space}) /\ Len(u \o w) = Len(u) + Len(w)
        BY <2>2, <4>1
      <4>3. \A i \in 1 .. Len(u) + Len(w) : (u \o w)[i] = IF i <= Len(u) THEN u[i] ELSE w[i - Len(u)]
        BY <2>2, <4>1
      <4> QED BY <4>2, <4>3
    <3>2. \A i \in 1 .. N + 1 : i \in 1 .. Len(u) + Len(w) /\ i <= Len(u)
      <4>1. Len(u) = N + 1 /\ Len(w) = M
        BY <1>1, <2>1
      <4> QED BY <4>1
    <3>3. \A i \in 1 .. M : N + 1 + i \in 1 .. Len(u) + Len(w) /\ ~(N + 1 + i <= Len(u)) /\ (N + 1 + i) - Len(u) = i
      BY <1>1, <2>1
    <3> QED BY <1>1, <2>1, <3>1, <3>2, <3>3, SMTT(30)
  <2>4. t = u \o w
    BY DEF u
  <2>5. \A i \in 1 .. N : i \in 1 .. N + 1
    OBVIOUS
  <2>6. N + 1 \in 1 .. N + 1
    OBVIOUS
  <2>7. DOMAIN (u \o w) = 1 .. N + 1 + M
    BY <2>3
  <2> HIDE DEF t
  <2> QED BY <2>1, <2>3, <2>4, <2>5, <2>6, <2>7
<1> HIDE DEF t
<1>4. \A i \in 1 .. N + 1 + M : i \in 1 .. N \/ i = N + 1 \/ (\E j \in 1 .. M : i = N + 1 + j)
  <2> TAKE i \in 1 .. N + 1 + M
  <2>1. CASE i > N + 1
    <3>1. i - (N + 1) \in 1 .. M /\ i = N + 1 + (i - (N + 1))
      BY <2>1
    <3> QED BY <3>1
  <2>2. CASE ~(i > N + 1)
    BY <2>2
  <2> QED BY <2>1, <2>2
<1>5. Starts(t) = Starts(s) \cup {N + 2}
  <2>1. ASSUME NEW i \in 1 .. N PROVE i \in Starts(t) <=> i \in Starts(s)
    <3>1. i \in DOMAIN t /\ t[i] = s[i] /\ (i # 1 => i - 1 \in 1 .. N)
      BY <1>3
    <3>2. i # 1 => t[i - 1] = s[i - 1]
      BY <1>3, <3>1
    <3> QED BY <1>2, <3>1, <3>2 DEF Starts
  <2>2. N + 1 \notin Starts(t)
    BY <1>3 DEF Starts
  <2>3. N + 2 \in Starts(t)
    <3>1. N + 2 \in DOMAIN t /\ N + 2 = N + 1 + 1 /\ (N + 2) - 1 = N + 1 /\ 1 \in 1 .. M
      BY <1>3
    <3>2. t[N + 2] = w[1] /\ t[N + 2] # Space
      BY <1>2, <1>3, <3>1
    <3> QED BY <1>3, <3>1, <3>2 DEF Starts
  <2>4. ASSUME NEW j \in 1 .. M, j # 1 PROVE N + 1 + j \notin Starts(t)
    <3>1. j - 1 \in 1 .. M /\ N + 1 + j # 1 /\ (N + 1 + j) - 1 = N + 1 + (j - 1)
      BY <2>4
    <3>2. t[(N + 1 + j) - 1] = w[j - 1] /\ w[j - 1] # Space
      BY <1>2, <1>3, <3>1
    <3> QED BY <3>1, <3>2 DEF Starts
  <2>5. ASSUME NEW i \in Starts(t) PROVE i \in Starts(s) \cup {N + 2}
    <3>1. i \in 1 .. N + 1 + M
      BY <1>3 DEF Starts
    <3>2. CASE i \in 1 .. N
      BY <2>1, <2>5, <3>2
    <3>3. ASSUME NEW j \in 1 .. M, i = N + 1 + j PROVE i = N + 2
      <4>1. j = 1
        BY <2>4, <2>5, <3>3
      <4> QED BY <3>3, <4>1
    <3> QED BY <1>4, <2>2, <2>5, <3>1, <3>2, <3>3
  <2>6. ASSUME NEW i \in Starts(s) PROVE i \in Starts(t)
    BY <1>2, <2>1 DEF Starts
  <2> QED BY <2>3, <2>5, <2>6
<1>6. Starts(s) \subseteq 1 .. N /\ IsFiniteSet(Starts(s))
  BY <1>1, <1>2, StartsFinite
<1>7. Cardinality(Starts(t)) = k
  <2>1. N + 2 \notin Starts(s)
    BY <1>6
  <2>2. Cardinality(Starts(t)) = Cardinality(Starts(s)) + 1
    BY <1>5, <1>6, <2>1, FS_AddElement
  <2> QED BY <2>2 DEF Shows
<1>8. Cardinality(Spaces(t)) = k - 1
  <2>1. Spaces(t) = Spaces(s) \cup {N + 1}
    <3>1. ASSUME NEW i \in Spaces(t) PROVE i \in Spaces(s) \cup {N + 1}
      <4>1. i \in 1 .. N + 1 + M /\ t[i] = Space
        BY <1>3 DEF Spaces
      <4>2. CASE i \in 1 .. N
        BY <1>2, <1>3, <4>1, <4>2 DEF Spaces
      <4>3. ASSUME NEW j \in 1 .. M, i = N + 1 + j PROVE FALSE
        BY <1>2, <1>3, <4>1, <4>3
      <4> QED BY <1>4, <4>1, <4>2, <4>3
    <3>2. ASSUME NEW i \in Spaces(s) PROVE i \in Spaces(t)
      <4>1. i \in 1 .. N /\ s[i] = Space
        BY <1>2 DEF Spaces
      <4>2. i \in 1 .. N + 1 + M
        BY <4>1
      <4> QED BY <1>3, <4>1, <4>2 DEF Spaces
    <3>3. N + 1 \in Spaces(t)
      <4>1. N + 1 \in 1 .. N + 1 + M
        OBVIOUS
      <4> QED BY <1>3, <4>1 DEF Spaces
    <3> QED BY <3>1, <3>2, <3>3
  <2>2. Spaces(s) \subseteq 1 .. N
    BY <1>2 DEF Spaces
  <2>3. IsFiniteSet(1 .. N)
    BY FS_Interval
  <2>4. IsFiniteSet(Spaces(s)) /\ N + 1 \notin Spaces(s)
    BY <2>2, <2>3, FS_Subset
  <2>5. Cardinality(Spaces(t)) = Cardinality(Spaces(s)) + 1
    BY <2>1, <2>4, FS_AddElement
  <2>6. (k - 2) + 1 = k - 1
    OBVIOUS
  <2> QED BY <2>5, <2>6 DEF Shows
<1>9. ASSUME NEW m \in 2 .. k
      PROVE  \E a \in Nat, e \in Nat : IsWord(t, m - 1, a, e) /\ SubSeq(t, a, e) = W[m]
  <2>1. PICK a \in Nat, e \in Nat : IsWord(s, m - 1, a, e) /\ SubSeq(s, a, e) = W[m]
    BY DEF Shows
  <2>2. /\ a \in Starts(s) /\ Cardinality(StartsTo(s, a)) = m - 1 /\ e \in a .. N
        /\ e = N \/ s[e + 1] = Space
        /\ \A f \in a .. e : s[f] # Space
    BY <1>1, <2>1 DEF IsWord
  <2>3. a \in 1 .. N
    BY <1>6, <2>2
  <2>4. StartsTo(t, a) = StartsTo(s, a)
    <3>1. ~(N + 2 <= a)
      BY <2>3
    <3> QED BY <1>5, <3>1 DEF StartsTo
  <2>5. \A f \in a .. e : f \in 1 .. N /\ t[f] = s[f]
    BY <1>3, <2>2, <2>3
  <2>6. e \in a .. Len(t)
    BY <1>3, <2>2, <2>3
  <2>7. t[e + 1] = Space
    <3>1. CASE e = N
      BY <1>3, <3>1
    <3>2. CASE e # N
      <4>1. e + 1 \in 1 .. N
        BY <2>2, <2>3, <3>2
      <4> QED BY <1>3, <2>2, <3>2, <4>1
    <3> QED BY <3>1, <3>2
  <2>8. IsWord(t, m - 1, a, e)
    BY <1>5, <2>2, <2>4, <2>5, <2>6, <2>7 DEF IsWord
  <2>9. SubSeq(t, a, e) = W[m]
    BY <2>1, <2>5, SamePart
  <2> QED BY <2>8, <2>9
<1>10. \E a \in Nat, e \in Nat : IsWord(t, k, a, e) /\ SubSeq(t, a, e) = W[k + 1]
  <2>1. StartsTo(t, N + 2) = Starts(t)
    <3>1. \A i \in Starts(s) : i <= N + 2
      BY <1>6
    <3> QED BY <1>5, <3>1 DEF StartsTo
  <2>2. \A f \in N + 2 .. N + 1 + M : t[f] = w[f - (N + 1)] /\ t[f] # Space
    <3> TAKE f \in N + 2 .. N + 1 + M
    <3>1. f - (N + 1) \in 1 .. M /\ f = N + 1 + (f - (N + 1))
      OBVIOUS
    <3> QED BY <1>2, <1>3, <3>1
  <2>3. IsWord(t, k, N + 2, N + 1 + M)
    <3>1. N + 1 + M \in N + 2 .. Len(t)
      BY <1>3
    <3> QED BY <1>3, <1>5, <1>7, <2>1, <2>2, <3>1 DEF IsWord
  <2>4. SubSeq(t, N + 2, N + 1 + M) = w
    <3>1. SubSeq(t, N + 2, N + 1 + M) = [i \in 1 .. M |-> t[N + 2 + i - 1]]
      <4>1. SubSeq(t, N + 2, N + 1 + M) = [i \in 1 .. (N + 1 + M) - (N + 2) + 1 |-> t[N + 2 + i - 1]]
        BY DEF SubSeq
      <4>2. (N + 1 + M) - (N + 2) + 1 = M
        OBVIOUS
      <4> QED BY <4>1, <4>2
    <3>2. \A i \in 1 .. M : N + 2 + i - 1 = N + 1 + i
      OBVIOUS
    <3>3. \A i \in 1 .. M : t[N + 2 + i - 1] = w[i]
      BY <1>3, <3>2
    <3>4. w = [i \in 1 .. M |-> w[i]]
      BY <1>1
    <3> QED BY <3>1, <3>3, <3>4
  <2> QED BY <2>3, <2>4
<1>11. \A m \in 2 .. k + 1 : \E a \in Nat, e \in Nat : IsWord(t, m - 1, a, e) /\ SubSeq(t, a, e) = W[m]
  <2> TAKE m \in 2 .. k + 1
  <2>1. CASE m = k + 1
    <3>1. m - 1 = k
      BY <2>1
    <3> QED BY <1>10, <2>1, <3>1
  <2>2. CASE m # k + 1
    <3>1. m \in 2 .. k
      BY <2>2
    <3> QED BY <1>9, <3>1
  <2> QED BY <2>1, <2>2
<1>12. t # <<>> /\ (k + 1) - 1 = k /\ (k + 1) - 2 = k - 1
  BY <1>3
<1>13. Shows(t, W, k + 1)
  BY <1>3, <1>7, <1>8, <1>11, <1>12 DEF Shows
<1> QED BY <1>13 DEF t

(* One round of cmd_echo's loop over the words W, from the earlier ones.   *)
EchoRound(f, W, k) == IF k = 1 THEN <<>> ELSE f[k - 1] \o (IF k > 2 THEN <<Space>> ELSE <<>>) \o W[k]

EchoSolved(W, n) == \E f : f = [k \in 1 .. n |-> EchoRound(f, W, k)]

(* The recursive definition of what echo prints has a solution: a least    *)
(* number of words for which it had none would have one word more than one *)
(* for which it has.                                                       *)
LEMMA EchoDefined ==
  ASSUME NEW W, NEW n \in Nat
  PROVE  EchoSolved(W, n)
<1> DEFINE Solved(m) == \E f : f = [k \in 1 .. m |-> EchoRound(f, W, k)]
           Bad == {m \in Nat : ~Solved(m)}
<1>1. Solved(0)
  <2>1. <<>> = [k \in 1 .. 0 |-> EchoRound(<<>>, W, k)]
    OBVIOUS
  <2> QED BY <2>1
<1>2. ASSUME NEW m \in Nat, Solved(m) PROVE Solved(m + 1)
  <2>1. PICK f : f = [k \in 1 .. m |-> EchoRound(f, W, k)]
    BY <1>2
  <2> DEFINE g == [k \in 1 .. m + 1 |-> EchoRound(f, W, k)]
  <2>2. ASSUME NEW k \in 1 .. m + 1 PROVE EchoRound(g, W, k) = EchoRound(f, W, k)
    <3>1. CASE k = 1
      BY <3>1 DEF EchoRound
    <3>2. CASE k # 1
      <4>1. k - 1 \in 1 .. m /\ k - 1 \in 1 .. m + 1
        BY <3>2
      <4>2. g[k - 1] = EchoRound(f, W, k - 1)
        BY <4>1
      <4>3. f[k - 1] = EchoRound(f, W, k - 1)
        BY <2>1, <4>1
      <4> HIDE DEF g
      <4> QED BY <4>2, <4>3 DEF EchoRound
    <3> QED BY <3>1, <3>2
  <2>3. g = [k \in 1 .. m + 1 |-> EchoRound(g, W, k)]
    <3> HIDE DEF g
    <3>1. [k \in 1 .. m + 1 |-> EchoRound(g, W, k)] = [k \in 1 .. m + 1 |-> EchoRound(f, W, k)]
      BY <2>2
    <3> QED BY <3>1 DEF g
  <2> HIDE DEF g
  <2> QED BY <2>3
<1> HIDE DEF Solved
<1>3. Bad = {}
  <2> SUFFICES ASSUME Bad # {} PROVE FALSE
    OBVIOUS
  <2>1. Bad \subseteq Nat
    OBVIOUS
  <2>2. PICK x \in Bad : \A y \in Bad : x <= y
    BY <2>1, Least
  <2>3. x # 0
    BY <1>1, <2>2
  <2>4. PICK m \in Nat : x = m + 1
    <3>1. x - 1 \in Nat /\ x = (x - 1) + 1
      BY <2>1, <2>3
    <3> QED BY <3>1
  <2>5. m \notin Bad
    <3>1. ~(x <= m)
      BY <2>4
    <3> QED BY <2>2, <3>1
  <2> QED BY <1>2, <2>2, <2>4, <2>5
<1> QED BY <1>3 DEF Solved, EchoSolved

(* What echo has printed after each round, by the same argument.           *)
LEMMA EchoShows ==
  ASSUME NEW n \in Nat \ {0}, NEW W, \A k \in 1 .. n : W[k] \in Seq(Letter) /\ W[k] # <<>>,
         NEW f, f = [k \in 1 .. n |-> EchoRound(f, W, k)]
  PROVE  f[1] = <<>> /\ \A k \in 2 .. n : Shows(f[k], W, k)
<1>2. \A k \in 1 .. n : f[k] = EchoRound(f, W, k)
  BY Zenon
<1>1. f[1] = <<>>
  <2>1. 1 \in 1 .. n
    OBVIOUS
  <2>2. f[1] = EchoRound(f, W, 1)
    BY <1>2, <2>1, Zenon
  <2> QED BY <2>2 DEF EchoRound
<1>3. n >= 2 => Shows(f[2], W, 2)
  <2> SUFFICES ASSUME n >= 2 PROVE Shows(f[2], W, 2)
    OBVIOUS
  <2>1. 2 \in 1 .. n /\ 2 # 1 /\ ~(2 > 2) /\ 2 - 1 = 1
    OBVIOUS
  <2>2. f[2] = f[1] \o <<>> \o W[2]
    BY <1>2, <2>1 DEF EchoRound
  <2>3. W[2] \in Seq(Letter) /\ W[2] # <<>>
    BY <2>1
  <2>4. PICK w \in Seq(Letter) : w = W[2]
    BY <2>3
  <2>5. <<>> \o <<>> \o w = w
    <3>1. <<>> \o <<>> = <<>>
      OBVIOUS
    <3>2. <<>> \o w = w
      OBVIOUS
    <3> QED BY <3>1, <3>2
  <2>6. f[2] = W[2]
    BY <1>1, <2>2, <2>4, <2>5
  <2> QED BY <2>3, <2>6, ShowsFirst
<1>4. ASSUME NEW k \in 2 .. n, k + 1 <= n, Shows(f[k], W, k) PROVE Shows(f[k + 1], W, k + 1)
  <2>1. k \in Nat /\ k >= 2 /\ k + 1 \in 1 .. n /\ k + 1 # 1 /\ k + 1 > 2 /\ (k + 1) - 1 = k
    BY <1>4
  <2>2. f[k + 1] = f[k] \o <<Space>> \o W[k + 1]
    BY <1>2, <2>1 DEF EchoRound
  <2>3. W[k + 1] \in Seq(Letter) /\ W[k + 1] # <<>>
    BY <2>1
  <2>4. PICK s, w : s = f[k] /\ w = W[k + 1]
    OBVIOUS
  <2>5. Shows(s \o <<Space>> \o w, W, k + 1)
    BY <1>4, <2>1, <2>3, <2>4, ShowsMore
  <2> QED BY <2>2, <2>4, <2>5
<1> DEFINE Bad == {k \in 2 .. n : ~Shows(f[k], W, k)}
<1>5. Bad = {}
  <2> SUFFICES ASSUME Bad # {} PROVE FALSE
    OBVIOUS
  <2>1. Bad \subseteq Nat
    OBVIOUS
  <2>2. PICK x \in Bad : \A y \in Bad : x <= y
    BY <2>1, Least
  <2>3. x \in 2 .. n /\ ~Shows(f[x], W, x) /\ x # 2
    BY <1>3, <2>2
  <2>4. PICK k \in 2 .. n : x = k + 1 /\ k + 1 <= n
    <3>1. x - 1 \in 2 .. n /\ x = (x - 1) + 1 /\ (x - 1) + 1 <= n
      BY <2>3
    <3> QED BY <3>1
  <2>5. k \notin Bad
    <3>1. ~(x <= k)
      BY <2>4
    <3> QED BY <2>2, <3>1
  <2> QED BY <1>4, <2>3, <2>4, <2>5
<1> QED BY <1>1, <1>5

(* What echo prints, given the words argv points to.                       *)
LEMMA EchoTextShows ==
  ASSUME NEW n \in Nat \ {0}, NEW W, argv \in Seq(Nat), Len(argv) = n,
         \A k \in 1 .. n : W[k] = String(argv[k]) /\ W[k] \in Seq(Letter) /\ W[k] # <<>>
  PROVE  /\ n = 1 => EchoText = <<>>
         /\ n >= 2 => Shows(EchoText, W, n)
<1> DEFINE Body(f, k) == IF k = 1 THEN <<>>
                         ELSE f[k - 1] \o (IF k > 2 THEN <<Space>> ELSE <<>>) \o String(argv[k])
           J == CHOOSE f : f = [k \in 1 .. n |-> Body(f, k)]
<1>1. EchoText = J[n]
  BY DEF EchoText
<1>2. \A f : \A k \in 1 .. n : Body(f, k) = EchoRound(f, W, k)
  BY DEF EchoRound
<1>3. \A f : [k \in 1 .. n |-> Body(f, k)] = [k \in 1 .. n |-> EchoRound(f, W, k)]
  BY <1>2
<1>4. \E f : f = [k \in 1 .. n |-> EchoRound(f, W, k)]
  <2>1. n \in Nat
    OBVIOUS
  <2>2. EchoSolved(W, n)
    BY <2>1, EchoDefined
  <2> HIDE DEF Body, J
  <2> QED BY <2>2, Zenon DEF EchoSolved
<1>5. \E f : f = [k \in 1 .. n |-> Body(f, k)]
  <2>1. PICK f : f = [k \in 1 .. n |-> EchoRound(f, W, k)]
    BY <1>4, Zenon
  <2>2. f = [k \in 1 .. n |-> Body(f, k)]
    <3> HIDE DEF Body
    <3> QED BY <1>3, <2>1, Zenon
  <2> HIDE DEF Body, J
  <2> QED BY <2>2, Zenon
<1>6. J = [k \in 1 .. n |-> Body(J, k)]
  <2> HIDE DEF Body
  <2> QED BY <1>5, Zenon
<1>7. J = [k \in 1 .. n |-> EchoRound(J, W, k)]
  <2> HIDE DEF Body, J
  <2> QED BY <1>3, <1>6, Zenon
<1> HIDE DEF Body, J
<1>8. J[1] = <<>> /\ \A k \in 2 .. n : Shows(J[k], W, k)
  <2>1. PICK g : g = J
    OBVIOUS
  <2>2. g = [k \in 1 .. n |-> EchoRound(g, W, k)]
    BY <1>7, <2>1, Zenon
  <2>3. g[1] = <<>> /\ \A k \in 2 .. n : Shows(g[k], W, k)
    BY <2>2, EchoShows
  <2> QED BY <2>1, <2>3
<1>9. n = 1 => EchoText = <<>>
  BY <1>1, <1>8
<1>10. n >= 2 => Shows(EchoText, W, n)
  <2> SUFFICES ASSUME n >= 2 PROVE Shows(EchoText, W, n)
    OBVIOUS
  <2>1. n \in 2 .. n
    OBVIOUS
  <2> QED BY <1>1, <1>8, <2>1, Zenon
<1> QED BY <1>9, <1>10

(* The words of echo's output are the words of the line.                   *)
LEMMA EchoCorrect ==
  ASSUME ParseInv, pc = "parsed", argv # <<>>, NEW s, s = EchoText
  PROVE  /\ Cardinality({k \in DOMAIN s : s[k] = Space}) = Cardinality(Starts(s)) - (IF s = <<>> THEN 0 ELSE 1)
         /\ Cardinality(Starts(s)) = Len(argv) - 1
         /\ \A k \in 2 .. Len(argv) : Word(s, k - 1) = Word(line, k)
<1>1. argv \in Seq(Nat) /\ \A k \in DOMAIN argv : WordCut(k)
  BY DEF ParseInv, ArgvInv
<1>2. PICK n \in Nat \ {0} : n = Len(argv)
  BY <1>1, EmptySeq
<1>3. DOMAIN argv = 1 .. n
  BY <1>1, <1>2
<1> DEFINE V == [k \in 1 .. n |-> Word(line, k)]
<1>4. \A k \in 1 .. n : V[k] = Word(line, k) /\ V[k] = String(argv[k]) /\ V[k] \in Seq(Letter) /\ V[k] # <<>>
  <2> TAKE k \in 1 .. n
  <2>1. k \in DOMAIN argv /\ WordCut(k)
    BY <1>1, <1>3
  <2>2. ParseTypeOK /\ ArgvInv
    BY DEF ParseInv
  <2>3. String(argv[k]) = Word(line, k) /\ Word(line, k) \in Seq(Letter) /\ Word(line, k) # <<>>
    BY <2>1, <2>2, CutWord
  <2> QED BY <2>3
<1> HIDE DEF V
<1>5. PICK W : W = V
  OBVIOUS
<1>6. (n = 1 => s = <<>>) /\ (n >= 2 => Shows(s, W, n))
  BY <1>1, <1>2, <1>4, <1>5, EchoTextShows
<1>7. CASE n = 1
  <2>1. s = <<>> /\ {k \in DOMAIN s : s[k] = Space} = {} /\ Starts(s) = {}
    BY <1>6, <1>7 DEF Starts
  <2>2. Cardinality(Starts(s)) = 0 /\ Cardinality({k \in DOMAIN s : s[k] = Space}) = 0
    BY <2>1, FS_EmptySet
  <2> QED BY <1>2, <1>7, <2>1, <2>2
<1>8. CASE n >= 2
  <2>1. Shows(s, W, n)
    BY <1>6, <1>8
  <2>2. s \in Seq(Letter \cup {Space}) /\ s # <<>> /\ Cardinality(Starts(s)) = n - 1 /\ Cardinality(Spaces(s)) = n - 2
    BY <2>1 DEF Shows
  <2>3. Cardinality({k \in DOMAIN s : s[k] = Space}) = n - 2
    BY <2>2 DEF Spaces
  <2>4. ASSUME NEW k \in 2 .. n PROVE Word(s, k - 1) = Word(line, k)
    <3>1. PICK a \in Nat, e \in Nat : IsWord(s, k - 1, a, e) /\ SubSeq(s, a, e) = W[k]
      BY <2>1 DEF Shows
    <3>2. Word(s, k - 1) = SubSeq(s, a, e)
      BY <2>2, <3>1, WordIs
    <3>3. k \in 1 .. n
      OBVIOUS
    <3> QED BY <1>4, <1>5, <3>1, <3>2, <3>3
  <2>5. Cardinality(Starts(s)) = Len(argv) - 1 /\ \A k \in 2 .. Len(argv) : Word(s, k - 1) = Word(line, k)
    BY <1>2, <2>2, <2>4
  <2>6. n - 2 = (n - 1) - 1
    OBVIOUS
  <2> QED BY <2>2, <2>3, <2>5, <2>6
<1> QED BY <1>7, <1>8

(* The command that is run.                                                *)
LEMMA DispatchInv ==
  ASSUME ParseInv, Dispatch
  PROVE  ParseInv'
<1>1. pc = "parsed" /\ argv # <<>> /\ pc' = "prompt" /\ UNCHANGED <<line, input, p, argv>>
  BY DEF Dispatch
<1>2. ParseTypeOK /\ ArgvInv /\ ParseTypeOK' /\ AheadInv' /\ ArgvInv' /\ RanInv'
  BY <1>1, SameWords DEF ParseInv, ParseTypeOK, AheadInv, RanInv
<1>3. Len(argv) = IF Cardinality(Starts(line)) < MaxArgs THEN Cardinality(Starts(line)) ELSE MaxArgs
  BY <1>1 DEF ParseInv, ScanInv
<1>4. ScanInv'
  BY <1>1, <1>3 DEF ScanInv
<1>5. /\ argv \in Seq(Nat) /\ 1 \in DOMAIN argv /\ argv[1] \in Starts(line)
      /\ WordCut(1)
  <2>1. argv \in Seq(Nat)
    BY <1>2 DEF ArgvInv
  <2>2. Len(argv) \in Nat \ {0} /\ DOMAIN argv = 1 .. Len(argv)
    BY <1>1, <2>1, EmptySeq
  <2>3. 1 \in DOMAIN argv
    BY <2>2
  <2> QED BY <1>1, <1>2, <2>1, <2>3 DEF ArgvInv
<1>6. PICK w : w = Word(line, 1)
  OBVIOUS
<1>7. w \in Seq(Letter) /\ Terminated(argv[1]) = Append(w, Nul)
  BY <1>2, <1>5, <1>6, CutWord
<1>8. \A c \in DOMAIN CommandName : str_eq(Append(w, Nul), Append(CommandName[c], Nul)) <=> CommandName[c] = w
  <2> TAKE c \in DOMAIN CommandName
  <2>1. CommandName[c] \in Seq(Letter)
    BY SymbolAssumption
  <2>2. str_eq(Append(w, Nul), Append(CommandName[c], Nul)) <=> w = CommandName[c]
    BY <1>7, <2>1, StrEq
  <2> QED BY <2>2
<1>9. Matching = {c \in DOMAIN CommandName : CommandName[c] = w}
  BY <1>7, <1>8, Zenon DEF Matching
<1>10. ran' \in (IF Matching = {} THEN {"unknown"} ELSE Matching) /\ (ran' = "echo" => echoed' = EchoText)
  BY Zenon DEF Dispatch
<1>11. IF ran' = "unknown" THEN \A c \in DOMAIN CommandName : CommandName[c] # w
       ELSE ran' \in DOMAIN CommandName /\ CommandName[ran'] = w
  <2>1. "unknown" \notin DOMAIN CommandName
    BY SymbolAssumption
  <2> QED BY <1>9, <1>10, <2>1
<1>12. ran' = "echo" =>
         /\ Cardinality({k \in DOMAIN echoed' : echoed'[k] = Space})
              = Cardinality(Starts(echoed')) - (IF echoed' = <<>> THEN 0 ELSE 1)
         /\ Cardinality(Starts(echoed')) = Len(argv) - 1
         /\ \A k \in 2 .. Len(argv) : Word(echoed', k - 1) = Word(line, k)
  <2> SUFFICES ASSUME ran' = "echo"
               PROVE  /\ Cardinality({k \in DOMAIN echoed' : echoed'[k] = Space})
                           = Cardinality(Starts(echoed')) - (IF echoed' = <<>> THEN 0 ELSE 1)
                      /\ Cardinality(Starts(echoed')) = Len(argv) - 1
                      /\ \A k \in 2 .. Len(argv) : Word(echoed', k - 1) = Word(line, k)
    BY Zenon
  <2>1. PICK s : s = echoed'
    OBVIOUS
  <2>2. s = EchoText
    BY <1>10, <2>1
  <2>3. /\ Cardinality({k \in DOMAIN s : s[k] = Space}) = Cardinality(Starts(s)) - (IF s = <<>> THEN 0 ELSE 1)
        /\ Cardinality(Starts(s)) = Len(argv) - 1
        /\ \A k \in 2 .. Len(argv) : Word(s, k - 1) = Word(line, k)
    BY <1>1, <2>2, EchoCorrect
  <2> QED BY <2>1, <2>3, Zenon
<1>13. DispatchCorrect'
  <2>1. line' = line /\ argv' = argv /\ Starts(line) # {}
    BY <1>1, <1>5
  <2>2. (IF Starts(line) = {} THEN ran = "nothing"
         ELSE IF ran = "unknown" THEN \A c \in DOMAIN CommandName : CommandName[c] # Word(line, 1)
         ELSE ran \in DOMAIN CommandName /\ CommandName[ran] = Word(line, 1))'
    BY <1>6, <1>11, <2>1
  <2>3. (ran = "echo" =>
         /\ Cardinality({k \in DOMAIN echoed : echoed[k] = Space}) = Cardinality(Starts(echoed)) - (IF echoed = <<>> THEN 0 ELSE 1)
         /\ Cardinality(Starts(echoed)) = Len(argv) - 1
         /\ \A k \in 2 .. Len(argv) : Word(echoed, k - 1) = Word(line, k))'
    BY <1>12, <2>1, Zenon
  <2> QED BY <2>2, <2>3, Zenon DEF DispatchCorrect
<1> QED BY <1>2, <1>4, <1>13 DEF ParseInv

(* The shell starts at its prompt, with an arbitrary input buffer.         *)
LEMMA InitParseInv == ParseInit => ParseInv
<1> SUFFICES ASSUME ParseInit PROVE ParseInv
  OBVIOUS
<1> USE DEF ParseInit
<1>1. Len(<<>>) = 0 /\ <<>> \in Line
  <2>1. 0 \in 0 .. MaxLine
    BY SizeAssumption
  <2>2. <<>> \in [1 .. 0 -> Letter \cup {Space}]
    OBVIOUS
  <2>3. <<>> \in Line
    BY <2>1, <2>2, Zenon DEF Line
  <2> QED BY <2>3
<1>2. ParseTypeOK
  BY <1>1, SizeAssumption DEF ParseTypeOK
<1>3. Starts(line) = {}
  BY DEF Starts
<1>4. Cardinality(Starts(line)) = 0 /\ Len(argv) = 0
  BY <1>3, FS_EmptySet
<1>5. ScanInv
  BY <1>4, SizeAssumption DEF ScanInv
<1>6. AheadInv /\ ArgvInv /\ RanInv /\ DispatchCorrect
  BY <1>3 DEF AheadInv, ArgvInv, RanInv, DispatchCorrect
<1> QED BY <1>2, <1>5, <1>6 DEF ParseInv

(* Every step of the shell's loop keeps the invariant.                     *)
LEMMA NextParseInv == ParseInv /\ [ParseNext]_parseVars => ParseInv'
<1> SUFFICES ASSUME ParseInv, [ParseNext]_parseVars PROVE ParseInv'
  OBVIOUS
<1>1. CASE EmptyLine
  BY <1>1, EmptyLineInv
<1>2. CASE StartParse \/ NextWord
  BY <1>2, LoopInv
<1>3. CASE SkipSpace \/ TrailingSpaces
  BY <1>3, SkipInv
<1>4. CASE StartToken
  BY <1>4, StartTokenInv
<1>5. CASE SkipToken
  BY <1>5, SkipTokenInv
<1>6. CASE EndToken
  BY <1>6, EndTokenInv
<1>7. CASE Dispatch
  BY <1>7, DispatchInv
<1>8. CASE \E l \in Line : ReadLine(l)
  BY <1>8, ReadLineInv
<1>9. CASE UNCHANGED parseVars
  <2>1. UNCHANGED <<line, input, pc, p, argv, ran, echoed>>
    BY <1>9 DEF parseVars
  <2>2. ParseTypeOK' /\ AheadInv' /\ ArgvInv' /\ ScanInv' /\ RanInv'
    BY <2>1 DEF ParseInv, ParseTypeOK, AheadInv, ArgvInv, WordCut, ScanInv, RanInv
  <2>3. DispatchCorrect'
    BY <2>1, Zenon DEF ParseInv, DispatchCorrect
  <2> QED BY <2>2, <2>3 DEF ParseInv
<1> QED BY <1>1, <1>2, <1>3, <1>4, <1>5, <1>6, <1>7, <1>8, <1>9 DEF ParseNext, Round, shell_parse

(* The scan of shell_parse stays inside the line whatever earlier lines    *)
(* left in the buffer, and argv inside its array.                          *)
THEOREM ParserType == ParseSpec => []ParseTypeOK
<1>1. ParseInv => ParseTypeOK
  BY DEF ParseInv
<1> QED BY <1>1, InitParseInv, NextParseInv, PTL DEF ParseSpec

(* shell_parse leaves the words of the typed line in argv, in order, as    *)
(* many as fit, each with its own terminator.                              *)
THEOREM WordsAreCorrect == ParseSpec => []ArgvCorrect
<1>1. ParseInv => ArgvCorrect
  <2> SUFFICES ASSUME ParseInv, pc \in {"parsed", "prompt"} PROVE ArgvCorrect
    BY DEF ArgvCorrect
  <2>1. Len(argv) = IF Cardinality(Starts(line)) < MaxArgs THEN Cardinality(Starts(line)) ELSE MaxArgs
    BY DEF ParseInv, ScanInv
  <2>2. \A k \in DOMAIN argv : WordCut(k)
    BY DEF ParseInv, ArgvInv
  <2>3. ParseTypeOK /\ ArgvInv
    BY DEF ParseInv
  <2>4. \A k \in DOMAIN argv : String(argv[k]) = Word(line, k)
    BY <2>2, <2>3, CutWord
  <2> QED BY <2>1, <2>4, Zenon DEF ArgvCorrect
<1> QED BY <1>1, InitParseInv, NextParseInv, PTL DEF ParseSpec

(* shell_run runs the command the first word names exactly, or none, and   *)
(* echo shows the other words with single spaces between them.             *)
THEOREM DispatchIsCorrect == ParseSpec => []DispatchCorrect
<1>1. ParseInv => DispatchCorrect
  BY DEF ParseInv
<1> QED BY <1>1, InitParseInv, NextParseInv, PTL DEF ParseSpec

=============================================================================
