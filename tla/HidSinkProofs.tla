----------------------------- MODULE HidSinkProofs -----------------------------
(***************************************************************************)
(* Proofs about HidSink, for any viewers, keyboards, clipboards and        *)
(* screens: no key stays held in the sink, the host's keyboard is in its   *)
(* state, a paste types its text, and pointer reports are on their target. *)
(***************************************************************************)
EXTENDS HidSink, FiniteSetTheorems, TLAPS

-----------------------------------------------------------------------------
(* The inductive invariants.                                               *)

\* The names of the modifiers, and the usages a key may stand for.
Modifiers == {"lshift", "ralt"}
Codes == {usbUsage[s] : s \in DOMAIN usbUsage} \cup {Usages[p] : p \in DOMAIN Usages}

\* The reports a reader may have built.
Reports ==
  {Keyboard(m, k) : m \in SUBSET Modifiers, k \in SUBSET Codes}
  \cup {Mouse(px, w, ScaleAbs(px, w)) : px \in Pixels, w \in Sizes}

\* The values of the variables.
TypeOK ==
  /\ published \in BOOLEAN /\ over \in BOOLEAN
  /\ raced \in BOOLEAN /\ byKey \in BOOLEAN /\ mixed \in BOOLEAN
  /\ mods \in SUBSET Modifiers /\ pressed \in Seq(Codes)
  /\ size \in Sizes
  /\ flight \in [Viewers -> {<<>>} \cup {<<r>> : r \in Reports}]
  /\ paste \in [Pastes -> [todo : Seq(STRING), at : {"off", "next", "hold", "gap"}]]
  /\ \A n \in Pastes : paste[n].at = "hold" => paste[n].todo # <<>>
  /\ started \in 0..MaxPastes
  /\ enabled \in [Viewers -> BOOLEAN] /\ held \in [Viewers -> SUBSET Phys]
  /\ acts \in Nat
  /\ text \in Seq(STRING)

\* Nothing is twice in q.
NoTwice(q) == \A i, j \in DOMAIN q : q[i] = q[j] => i = j

\* No usage has two slots, and before the sink is there nothing is held.
SlotsOK ==
  /\ NoTwice(pressed)
  /\ ~published => mods = {} /\ pressed = <<>>

\* Of reports that have not crossed, one is in flight at most, and it is the sink's state.
OneInFlight ==
  ~raced => \A v \in Viewers : KeyboardInFlight(v) =>
              /\ Head(flight[v]) = Keyboard(mods, ToSet(pressed))
              /\ \A o \in Viewers : KeyboardInFlight(o) => o = v

\* The runes of the clipboard its goroutine has done with.
Taken == Len(text) - Len(paste[started].todo)

\* A paste nothing interferes with: what is left to type follows what is typed; the host
\* holds the key that is down, or nothing.
Typing ==
  LET todo == paste[started].todo IN
  /\ typed \in Seq([key : Codes, shift : BOOLEAN])
  /\ Taken \in 0..Len(text)
  /\ \A i \in DOMAIN todo : todo[i] = text[Taken + i]
  /\ paste[started].at = "off" => todo = <<>>
  /\ IF paste[started].at = "hold"
     THEN /\ todo # <<>> /\ AsciiToUsage(Head(todo)) # {}
          /\ host = [mods |-> Shift(Head(todo)), keys |-> AsciiToUsage(Head(todo))]
          /\ TypedUpTo(Taken + 1)
     ELSE host = Released /\ TypedUpTo(Taken)

Pasting ==
  /\ \A n \in Pastes : n > started => paste[n].at = "off"
  /\ started > 0 /\ ~mixed =>
       /\ \A n \in Pastes : n # started => paste[n].at = "off"
       /\ ~over => Typing

Inv ==
  /\ TypeOK /\ SlotsOK /\ NoStuckKey
  /\ OneInFlight /\ HostInSync
  /\ Pasting

-----------------------------------------------------------------------------
(* The slots.                                                              *)

\* A key added to the slots is there once.
LEMMA KeyAdded ==
  ASSUME NEW S, NEW s \in Seq(S), NoTwice(s), NEW u \in S
  PROVE  /\ AddKey(s, u) \in Seq(S) /\ NoTwice(AddKey(s, u))
         /\ ToSet(AddKey(s, u)) \subseteq ToSet(s) \cup {u}
<1>1. CASE u \in ToSet(s) \/ Len(s) >= Slots
  BY <1>1 DEF AddKey
<1>2. CASE ~(u \in ToSet(s) \/ Len(s) >= Slots)
  <2>1. PICK a : a = Append(s, u)
    OBVIOUS
  <2>2. PICK n \in Nat : n = Len(s)
    OBVIOUS
  <2>3. /\ a \in Seq(S) /\ DOMAIN a = 1..(n + 1) /\ DOMAIN s = 1..n
        /\ a[n + 1] = u /\ \A i \in 1..n : a[i] = s[i]
    BY <2>1, <2>2
  <2>4. \A i \in 1..(n + 1) : i \in 1..n \/ i = n + 1
    OBVIOUS
  <2>5. \A i \in 1..n : s[i] # u
    BY <1>2, <2>3 DEF ToSet
  <2>6. NoTwice(a)
    BY <2>3, <2>4, <2>5 DEF NoTwice
  <2>7. ToSet(a) \subseteq ToSet(s) \cup {u}
    BY <2>3, <2>4 DEF ToSet
  <2>8. AddKey(s, u) = a
    BY <1>2, <2>1 DEF AddKey
  <2> QED
    BY <2>3, <2>6, <2>7, <2>8
<1> QED
  BY <1>1, <1>2

\* A key removed from the slots is gone, and only it.
LEMMA KeyRemoved ==
  ASSUME NEW S, NEW s \in Seq(S), NoTwice(s), NEW u
  PROVE  /\ RemoveKey(s, u) \in Seq(S) /\ NoTwice(RemoveKey(s, u))
         /\ ToSet(RemoveKey(s, u)) \subseteq ToSet(s) \ {u}
<1>1. CASE u \notin ToSet(s)
  BY <1>1 DEF RemoveKey
<1>2. CASE u \in ToSet(s)
  <2>1. PICK n \in Nat : n = Len(s)
    OBVIOUS
  <2>2. DOMAIN s = 1..n
    BY <2>1
  <2>3. PICK k : k = CHOOSE i \in 1..Len(s) : s[i] = u
    OBVIOUS
  <2>4. k \in 1..n /\ s[k] = u
    BY <1>2, <2>1, <2>2, <2>3 DEF ToSet
  <2>5. PICK a, b : a = SubSeq(s, 1, k - 1) /\ b = SubSeq(s, k + 1, n)
    OBVIOUS
  <2>6. /\ a \in Seq(S) /\ Len(a) = k - 1 /\ \A i \in 1..(k - 1) : a[i] = s[i]
    BY <2>1, <2>4, <2>5
  <2>7. /\ b \in Seq(S) /\ Len(b) = n - k /\ \A i \in 1..(n - k) : b[i] = s[k + i]
    BY <2>1, <2>4, <2>5
  <2>8. PICK r : r = a \o b
    OBVIOUS
  <2>9. r \in Seq(S) /\ Len(r) = n - 1
    BY <2>1, <2>4, <2>6, <2>7, <2>8
  <2>10. ASSUME NEW i \in 1..(n - 1)
         PROVE  IF i < k THEN r[i] = s[i] ELSE r[i] = s[i + 1]
    <3>1. CASE i < k
      <4>1. i \in 1..Len(a)
        BY <2>4, <2>6, <3>1
      <4> QED
        BY <2>4, <2>6, <2>7, <2>8, <3>1, <4>1
    <3>2. CASE ~(i < k)
      <4>1. i - (k - 1) \in 1..(n - k) /\ k + (i - (k - 1)) = i + 1
        BY <2>4, <3>2
      <4>2. r[i] = b[i - (k - 1)]
        BY <2>4, <2>6, <2>7, <2>8, <3>2
      <4> QED
        BY <2>7, <3>2, <4>1, <4>2
    <3> QED
      BY <3>1, <3>2
  <2>11. DOMAIN r = 1..(n - 1)
    BY <2>1, <2>4, <2>9
  <2>12. ASSUME NEW i \in 1..(n - 1)
         PROVE  \E j \in 1..n : j # k /\ r[i] = s[j] /\ j = IF i < k THEN i ELSE i + 1
    BY <2>4, <2>10
  <2>13. NoTwice(r)
    <3> SUFFICES ASSUME NEW i \in 1..(n - 1), NEW j \in 1..(n - 1), r[i] = r[j] PROVE i = j
      BY <2>11 DEF NoTwice
    <3>1. PICK x \in 1..n : r[i] = s[x] /\ x = IF i < k THEN i ELSE i + 1
      BY <2>12
    <3>2. PICK y \in 1..n : r[j] = s[y] /\ y = IF j < k THEN j ELSE j + 1
      BY <2>12
    <3>3. x = y
      BY <2>2, <3>1, <3>2 DEF NoTwice
    <3> QED
      BY <2>4, <3>1, <3>2, <3>3
  <2>14. ToSet(r) \subseteq ToSet(s) \ {u}
    <3> SUFFICES ASSUME NEW i \in 1..(n - 1) PROVE r[i] \in ToSet(s) /\ r[i] # u
      BY <2>11 DEF ToSet
    <3>1. PICK x \in 1..n : r[i] = s[x] /\ x # k
      BY <2>12
    <3> QED
      BY <2>2, <2>4, <3>1 DEF ToSet, NoTwice
  <2>15. RemoveKey(s, u) = r
    BY <1>2, <2>1, <2>3, <2>5, <2>8 DEF RemoveKey, RemoveAt
  <2> QED
    BY <2>9, <2>13, <2>14, <2>15
<1> QED
  BY <1>1, <1>2

-----------------------------------------------------------------------------
(* Key events.                                                             *)

\* What a key stands for: a modifier, or a usage, or nothing.
LEMMA Meaning ==
  ASSUME NEW v \in Viewers, NEW p \in Phys, NEW ks, ks = SendKey(v, p)
  PROVE  /\ ModBit(ks) \in SUBSET Modifiers
         /\ Usage(ks) = {} \/ \E u \in Codes : Usage(ks) = {u}
         /\ ModBit(ks) = {} \/ Usage(ks) = {}
<1>1. CASE enabled[v] /\ p \in DOMAIN Usages
  <2>1. ks.raw = TRUE /\ ks.sym = Usages[p]
    BY <1>1 DEF SendKey
  <2>2. Usages[p] \in Codes
    BY <1>1 DEF Codes
  <2>3. ModBit(ks) \in SUBSET Modifiers
    BY <2>1 DEF ModBit, modBitForUsage, Modifiers
  <2>4. CASE ModBit(ks) # {}
    <3>1. Usage(ks) = {}
      BY <2>4 DEF Usage
    <3> QED
      BY <2>3, <3>1
  <2>5. CASE ModBit(ks) = {}
    <3>1. Usage(ks) = {ks.sym}
      BY <2>1, <2>5 DEF Usage
    <3> QED
      BY <2>1, <2>2, <2>5, <3>1
  <2> QED
    BY <2>4, <2>5
<1>2. CASE ~(enabled[v] /\ p \in DOMAIN Usages)
  <2>1. ks.raw = FALSE /\ ks.sym = Layout[p]
    BY <1>2 DEF SendKey
  <2>2. ModBit(ks) \in SUBSET Modifiers
    BY <2>1 DEF ModBit, modifierKeysym, Modifiers
  <2>3. CASE ModBit(ks) # {} \/ ks.sym \notin DOMAIN usbUsage
    <3>1. Usage(ks) = {}
      BY <2>1, <2>3 DEF Usage
    <3> QED
      BY <2>2, <3>1
  <2>4. CASE ModBit(ks) = {} /\ ks.sym \in DOMAIN usbUsage
    <3>1. Usage(ks) = {usbUsage[ks.sym]}
      BY <2>1, <2>4 DEF Usage
    <3>2. usbUsage[ks.sym] \in Codes
      BY <2>4 DEF Codes
    <3> QED
      BY <2>4, <3>1, <3>2
  <2> QED
    BY <2>3, <2>4
<1> QED
  BY <1>1, <1>2

\* No usage has the name of a modifier.
LEMMA CodesApart == Codes \cap Modifiers = {}
BY HidAssumption DEF Codes, Modifiers, usbUsage

\* What a key event does to what is held.
LEMMA KeyEffect ==
  ASSUME TypeOK, SlotsOK, NEW v \in Viewers, NEW p \in Phys, NEW ks, ks = SendKey(v, p),
         NEW down \in BOOLEAN, KeyEvent(v, ks, down)
  PROVE  /\ mods' \in SUBSET Modifiers /\ pressed' \in Seq(Codes) /\ NoTwice(pressed')
         /\ published \/ (mods' = mods /\ pressed' = pressed)
         /\ down => mods' \cup ToSet(pressed') \subseteq mods \cup ToSet(pressed) \cup Means(ks)
         /\ ~down => mods' \cup ToSet(pressed') \subseteq (mods \cup ToSet(pressed)) \ Means(ks)
<1>1. mods \in SUBSET Modifiers /\ pressed \in Seq(Codes) /\ NoTwice(pressed)
  BY DEF TypeOK, SlotsOK
<1>2. /\ ModBit(ks) \in SUBSET Modifiers
      /\ Usage(ks) = {} \/ \E u \in Codes : Usage(ks) = {u}
      /\ ModBit(ks) = {} \/ Usage(ks) = {}
  BY Meaning
<1>3. ToSet(pressed) \subseteq Codes
  BY <1>1 DEF ToSet
<1>4. CASE ~(published /\ Means(ks) # {})
  <2>1. mods' = mods /\ pressed' = pressed
    BY <1>4 DEF KeyEvent
  <2>2. published => Means(ks) = {}
    BY <1>4
  <2>3. ~published => mods = {} /\ ToSet(pressed) = {}
    BY DEF SlotsOK, ToSet
  <2> QED
    BY <1>1, <2>1, <2>2, <2>3
<1>5. CASE published /\ Means(ks) # {}
  <2>1. /\ mods' = IF down THEN mods \cup ModBit(ks) ELSE mods \ ModBit(ks)
        /\ pressed' = Slotted(ks, down)
    BY <1>5 DEF KeyEvent
  <2>2. mods' \in SUBSET Modifiers
    BY <1>1, <1>2, <2>1
  <2>3. CASE Usage(ks) = {}
    <3>1. pressed' = pressed /\ Means(ks) = ModBit(ks)
      BY <2>1, <2>3 DEF Slotted, Means
    <3>2. ToSet(pressed) \cap Means(ks) = {}
      BY <1>2, <1>3, <3>1, CodesApart
    <3>3. mods' \subseteq IF down THEN mods \cup Means(ks) ELSE mods \ Means(ks)
      BY <2>1, <3>1
    <3> QED
      BY <1>1, <1>5, <2>2, <3>1, <3>2, <3>3
  <2>4. CASE Usage(ks) # {}
    <3>1. PICK u \in Codes : Usage(ks) = {u}
      BY <1>2, <2>4
    <3>2. ModBit(ks) = {} /\ Means(ks) = {u} /\ mods' = mods
      BY <1>2, <2>1, <2>4, <3>1 DEF Means
    <3>3. (CHOOSE x \in Usage(ks) : TRUE) = u
      BY <3>1
    <3>4. pressed' = IF down THEN AddKey(pressed, u) ELSE RemoveKey(pressed, u)
      BY <2>1, <2>4, <3>3 DEF Slotted
    <3>5. u \notin mods
      BY <1>1, CodesApart
    <3>6. CASE down
      <4>1. pressed' = AddKey(pressed, u)
        BY <3>4, <3>6
      <4> QED
        BY <1>1, <1>5, <2>2, <3>2, <3>6, <4>1, KeyAdded, Zenon
    <3>7. CASE ~down
      <4>1. pressed' = RemoveKey(pressed, u)
        BY <3>4, <3>7
      <4>2. /\ pressed' \in Seq(Codes) /\ NoTwice(pressed')
            /\ ToSet(pressed') \subseteq ToSet(pressed) \ {u}
        BY <1>1, <4>1, KeyRemoved, Zenon
      <4> QED
        BY <1>5, <2>2, <3>2, <3>5, <3>7, <4>2
    <3> QED
      BY <3>6, <3>7
  <2> QED
    BY <2>3, <2>4
<1> QED
  BY <1>4, <1>5

-----------------------------------------------------------------------------
(* Types.                                                                  *)

\* The values stay of their types, and the slots without repetition.
LEMMA TypeInit == Init => TypeOK /\ SlotsOK
<1> SUFFICES ASSUME Init PROVE TypeOK /\ SlotsOK
  OBVIOUS
<1>1. DefaultSize \in Sizes /\ MaxPastes \in Nat /\ Saved \in [Viewers -> BOOLEAN]
  BY HidAssumption
<1>2. [n \in Pastes |-> NoPaste] \in [Pastes -> [todo : Seq(STRING), at : {"off", "next", "hold", "gap"}]]
  BY DEF NoPaste
<1>3. paste \in [Pastes -> [todo : Seq(STRING), at : {"off", "next", "hold", "gap"}]]
  BY <1>2 DEF Init
<1>4. <<>> \in Seq(Codes) /\ <<>> \in Seq(STRING)
  OBVIOUS
<1>5. \A n \in Pastes : paste[n].at = "off"
  BY DEF Init, NoPaste
<1>6. flight \in [Viewers -> {<<>>} \cup {<<r>> : r \in Reports}]
  BY DEF Init
<1>7. enabled \in [Viewers -> BOOLEAN] /\ held \in [Viewers -> SUBSET Phys]
  BY <1>1 DEF Init
<1>8. mods \in SUBSET Modifiers /\ pressed \in Seq(Codes) /\ text \in Seq(STRING)
  BY <1>4 DEF Init
<1>9. size \in Sizes /\ started \in 0..MaxPastes /\ acts \in Nat
  BY <1>1 DEF Init
<1>10. /\ published \in BOOLEAN /\ over \in BOOLEAN
       /\ raced \in BOOLEAN /\ byKey \in BOOLEAN /\ mixed \in BOOLEAN
  BY DEF Init
<1>11. \A n \in Pastes : paste[n].at # "hold"
  BY <1>5
<1>12. TypeOK
  BY <1>3, <1>6, <1>7, <1>8, <1>9, <1>10, <1>11, Zenon DEF TypeOK
<1> QED
  BY <1>12 DEF Init, SlotsOK, NoTwice

\* So they do in every step.
LEMMA TypeStep == TypeOK /\ SlotsOK /\ [Next]_vars => TypeOK' /\ SlotsOK'
<1> SUFFICES ASSUME TypeOK, SlotsOK, [Next]_vars PROVE TypeOK' /\ SlotsOK'
  OBVIOUS
<1>1. ASSUME NEW v \in Viewers, NEW p \in Phys, NEW down \in BOOLEAN,
             flight[v] = <<>>,
             held' = [held EXCEPT ![v] = IF down THEN @ \cup {p} ELSE @ \ {p}],
             KeyEvent(v, SendKey(v, p), down), acts' \in Nat,
             UNCHANGED <<published, size, pasteVars, over, hostVars, enabled>>
      PROVE  TypeOK' /\ SlotsOK'
  <2>1. PICK ks : ks = SendKey(v, p)
    OBVIOUS
  <2>2. /\ mods' \in SUBSET Modifiers /\ pressed' \in Seq(Codes) /\ NoTwice(pressed')
        /\ published \/ (mods' = mods /\ pressed' = pressed)
    BY <1>1, <2>1, KeyEffect
  <2>3. flight' \in [Viewers -> {<<>>} \cup {<<r>> : r \in Reports}] /\ raced' \in BOOLEAN
    <3>1. CASE published /\ Means(ks) # {}
      <4>1. PICK k : k = ToSet(pressed')
        OBVIOUS
      <4>2. k \in SUBSET Codes
        BY <2>2, <4>1 DEF ToSet
      <4>3. Keyboard(mods', k) \in Reports
        BY <2>2, <4>2 DEF Reports
      <4>4. /\ flight' = [flight EXCEPT ![v] = <<Keyboard(mods', k)>>]
            /\ raced' = \E o \in Viewers \ {v} : KeyboardInFlight(o)
        BY <1>1, <2>1, <3>1, <4>1 DEF KeyEvent
      <4>5. raced' \in BOOLEAN
        BY <4>4, Zenon
      <4> QED
        BY <4>3, <4>4, <4>5 DEF TypeOK
    <3>2. CASE ~(published /\ Means(ks) # {})
      BY <1>1, <2>1, <3>2 DEF KeyEvent, TypeOK
    <3> QED
      BY <3>1, <3>2
  <2>4. held' \in [Viewers -> SUBSET Phys]
    BY <1>1 DEF TypeOK
  <2>5. TypeOK'
    BY <1>1, <2>2, <2>3, <2>4 DEF TypeOK, pasteVars, hostVars
  <2>6. ~published' => mods' = {} /\ pressed' = <<>>
    BY <1>1, <2>2 DEF SlotsOK
  <2> QED
    BY <2>2, <2>5, <2>6 DEF SlotsOK
<1>2. ASSUME UNCHANGED <<mods, pressed>>, published => published' PROVE SlotsOK'
  BY <1>2 DEF SlotsOK, NoTwice
<1>3. CASE Publish
  BY <1>2, <1>3 DEF Publish, TypeOK, pasteVars, hostVars, pageVars, histVars
<1>4. ASSUME NEW v \in Viewers, NEW p \in Phys, KeyDown(v, p) PROVE TypeOK' /\ SlotsOK'
  <2>1. acts' \in Nat
    BY <1>4 DEF KeyDown, Act, TypeOK
  <2>2. held' = [held EXCEPT ![v] = IF TRUE THEN @ \cup {p} ELSE @ \ {p}]
    BY <1>4 DEF KeyDown
  <2> QED
    BY <1>1, <1>4, <2>1, <2>2 DEF KeyDown
<1>5. ASSUME NEW v \in Viewers, NEW p \in Phys, KeyUp(v, p) PROVE TypeOK' /\ SlotsOK'
  <2>1. acts' \in Nat
    BY <1>5 DEF KeyUp, TypeOK
  <2>2. held' = [held EXCEPT ![v] = IF FALSE THEN @ \cup {p} ELSE @ \ {p}]
    BY <1>5 DEF KeyUp
  <2> QED
    BY <1>1, <1>5, <2>1, <2>2 DEF KeyUp
<1>6. ASSUME NEW v \in Viewers, NEW px \in Pixels, PointerEvent(v, px) PROVE TypeOK' /\ SlotsOK'
  <2>1. Mouse(px, size, ScaleAbs(px, size)) \in Reports
    BY DEF Reports, TypeOK
  <2>2. flight' \in [Viewers -> {<<>>} \cup {<<r>> : r \in Reports}]
    BY <1>6, <2>1 DEF PointerEvent, TypeOK
  <2>3. acts' \in Nat
    BY <1>6 DEF PointerEvent, Act, TypeOK
  <2> QED
    BY <1>2, <1>6, <2>2, <2>3 DEF PointerEvent, TypeOK, sinkVars, pasteVars, hostVars, histVars
<1>7. ASSUME NEW v \in Viewers, NEW clip \in Texts, CutText(v, clip) PROVE TypeOK' /\ SlotsOK'
  <2>1. clip \in Seq(STRING) /\ MaxPastes \in Nat
    BY HidAssumption
  <2>2. started' \in 0..MaxPastes
    BY <1>7, <2>1 DEF CutText, TypeOK
  <2>3. /\ paste' \in [Pastes -> [todo : Seq(STRING), at : {"off", "next", "hold", "gap"}]]
        /\ \A n \in Pastes : paste'[n].at = "hold" => paste'[n].todo # <<>>
    BY <1>7, <2>1 DEF CutText, TypeOK
  <2>4. mixed' \in BOOLEAN
    <3>1. mixed' = (host # Released \/ \E n \in Pastes : paste[n].at # "off")
      BY <1>7 DEF CutText
    <3> QED
      BY <3>1, Zenon
  <2> QED
    BY <1>2, <1>7, <2>1, <2>2, <2>3, <2>4 DEF CutText, TypeOK, sinkVars, pageVars, histVars
<1>8. ASSUME NEW v \in Viewers, SendReport(v) PROVE TypeOK' /\ SlotsOK'
  <2>1. mixed' \in BOOLEAN
    <3>1. mixed' = (started > 0 /\ (mixed \/ KeyboardInFlight(v)))
      BY <1>8 DEF SendReport
    <3> QED
      BY <3>1, Zenon
  <2>2. byKey' \in BOOLEAN
    <3>1. byKey' = (byKey \/ KeyboardInFlight(v))
      BY <1>8 DEF SendReport
    <3> QED
      BY <3>1, Zenon
  <2>3. flight' \in [Viewers -> {<<>>} \cup {<<r>> : r \in Reports}]
    BY <1>8 DEF SendReport, TypeOK
  <2> QED
    BY <1>2, <1>8, <2>1, <2>2, <2>3 DEF SendReport, TypeOK, sinkVars, pageVars, histVars
<1>9. ASSUME NEW v \in Viewers, Toggle(v) PROVE TypeOK' /\ SlotsOK'
  <2>1. enabled' \in [Viewers -> BOOLEAN]
    BY <1>9 DEF Toggle, TypeOK
  <2>2. acts' \in Nat
    BY <1>9 DEF Toggle, Act, TypeOK
  <2> QED
    BY <1>2, <1>9, <2>1, <2>2 DEF Toggle, TypeOK, sinkVars, pasteVars, hostVars
<1>10. ASSUME NEW v \in Viewers, Leave(v) PROVE TypeOK' /\ SlotsOK'
  <2>1. held' \in [Viewers -> SUBSET Phys]
    BY <1>10 DEF Leave, TypeOK
  <2> QED
    BY <1>2, <1>10, <2>1 DEF Leave, TypeOK, sinkVars, pasteVars, hostVars
<1>11. ASSUME NEW w \in Sizes, SetFrameSize(w) PROVE TypeOK' /\ SlotsOK'
  <2>1. acts' \in Nat
    BY <1>11 DEF SetFrameSize, Act, TypeOK
  <2> QED
    BY <1>2, <1>11, <2>1 DEF SetFrameSize, TypeOK, pasteVars, hostVars, histVars
<1>12. ASSUME NEW n \in Pastes, PasteStep(n) PROVE TypeOK' /\ SlotsOK'
  <2>1. PICK q \in Seq(STRING) : q = paste[n].todo
    BY DEF TypeOK
  <2>2. PICK t : t = Tail(q)
    OBVIOUS
  <2>3. q # <<>> => t \in Seq(STRING)
    BY <2>2
  <2>4. /\ paste' \in [Pastes -> [todo : Seq(STRING), at : {"off", "next", "hold", "gap"}]]
        /\ \A m \in Pastes : paste'[m].at = "hold" => paste'[m].todo # <<>>
    <3>1. CASE PasteDown(n)
      <4>1. \/ paste' = [paste EXCEPT ![n].at = "hold"]
            \/ paste' = [paste EXCEPT ![n].todo = Tail(@), ![n].at = "next"]
        BY <3>1 DEF PasteDown
      <4>2. q # <<>>
        BY <2>1, <3>1 DEF PasteDown
      <4> QED
        BY ZenonT(90), <2>1, <2>2, <2>3, <4>1, <4>2 DEF TypeOK
    <3>2. CASE PasteUp(n)
      <4>1. q # <<>>
        BY <2>1, <3>2 DEF PasteUp, TypeOK
      <4>2. paste' = [paste EXCEPT ![n].todo = Tail(@), ![n].at = "gap"]
        BY <3>2 DEF PasteUp
      <4> QED
        BY ZenonT(90), <2>1, <2>2, <2>3, <4>1, <4>2 DEF TypeOK
    <3>3. CASE PasteEnd(n)
      BY <3>3 DEF PasteEnd, TypeOK
    <3>4. CASE PasteCancelled(n)
      BY <3>4 DEF PasteCancelled, TypeOK
    <3> QED
      BY <1>12, <3>1, <3>2, <3>3, <3>4 DEF PasteStep
  <2>5. /\ byKey' \in BOOLEAN
        /\ UNCHANGED <<sinkVars, flight, started, text, mixed, over, pageVars, histVars>>
    BY <1>12 DEF PasteStep, PasteDown, PasteUp, PasteEnd, PasteCancelled, TypeOK, hostVars
  <2> QED
    BY <1>2, <2>4, <2>5 DEF TypeOK, sinkVars, pageVars, histVars
<1>13. CASE SessionEnds
  BY <1>2, <1>13 DEF SessionEnds, TypeOK, sinkVars, pasteVars, hostVars, pageVars, histVars
<1>14. CASE UNCHANGED vars
  BY <1>2, <1>14 DEF TypeOK, vars, sinkVars, pasteVars, hostVars, pageVars, histVars
<1> QED
  BY <1>3, <1>4, <1>5, <1>6, <1>7, <1>8, <1>9, <1>10, <1>11, <1>12, <1>13, <1>14 DEF Next

-----------------------------------------------------------------------------
(* No stuck key.                                                           *)

\* Some viewer holds a key that stands for x.
HeldBySome(x) == \E v \in Viewers : \E p \in held[v] : x \in Means(SendKey(v, p))

\* What is held in the sink stays accounted for.
LEMMA StuckStep == TypeOK /\ SlotsOK /\ NoStuckKey /\ [Next]_vars => NoStuckKey'
<1> SUFFICES ASSUME TypeOK, SlotsOK, NoStuckKey, [Next]_vars PROVE NoStuckKey'
  OBVIOUS
<1>1. \A x \in mods \cup ToSet(pressed) : x \in stale \/ HeldBySome(x)
  BY DEF NoStuckKey, Down, HeldBySome
<1>2. ASSUME \A x \in mods' \cup ToSet(pressed') : x \in stale' \/ HeldBySome(x)'
      PROVE  NoStuckKey'
  BY <1>2 DEF NoStuckKey, Down, HeldBySome
<1>3. held \in [Viewers -> SUBSET Phys] /\ enabled \in [Viewers -> BOOLEAN]
  BY DEF TypeOK
<1>4. ASSUME NEW v \in Viewers, NEW p \in Phys, KeyDown(v, p) PROVE NoStuckKey'
  <2>1. PICK ks : ks = SendKey(v, p)
    OBVIOUS
  <2>2. mods' \cup ToSet(pressed') \subseteq mods \cup ToSet(pressed) \cup Means(ks)
    BY <1>4, <2>1, KeyEffect DEF KeyDown
  <2>3. /\ held' = [held EXCEPT ![v] = @ \cup {p}]
        /\ enabled' = enabled /\ stale' = stale
    BY <1>4 DEF KeyDown
  <2>4. \A x \in Means(ks) : HeldBySome(x)'
    BY <1>3, <2>1, <2>3 DEF HeldBySome, SendKey
  <2>5. \A x : HeldBySome(x) => HeldBySome(x)'
    BY <1>3, <2>3 DEF HeldBySome, SendKey
  <2> QED
    BY <1>1, <1>2, <2>2, <2>3, <2>4, <2>5, Zenon
<1>5. ASSUME NEW v \in Viewers, NEW p \in Phys, KeyUp(v, p) PROVE NoStuckKey'
  <2>1. PICK ks : ks = SendKey(v, p)
    OBVIOUS
  <2>2. mods' \cup ToSet(pressed') \subseteq (mods \cup ToSet(pressed)) \ Means(ks)
    BY <1>5, <2>1, KeyEffect DEF KeyUp
  <2>3. /\ held' = [held EXCEPT ![v] = @ \ {p}]
        /\ enabled' = enabled /\ stale' = stale \ Means(ks)
    BY <1>5, <2>1 DEF KeyUp
  <2>4. \A x : HeldBySome(x) /\ x \notin Means(ks) => HeldBySome(x)'
    <3> SUFFICES ASSUME NEW x, HeldBySome(x), x \notin Means(ks) PROVE HeldBySome(x)'
      OBVIOUS
    <3>1. PICK u \in Viewers : \E q \in held[u] : x \in Means(SendKey(u, q))
      BY DEF HeldBySome
    <3>2. PICK q \in held[u] : x \in Means(SendKey(u, q))
      BY <3>1
    <3>3. ~(u = v /\ q = p)
      BY <2>1, <3>2
    <3>4. q \in held'[u]
      BY <1>3, <2>3, <3>2, <3>3
    <3>5. SendKey(u, q)' = SendKey(u, q)
      BY <2>3 DEF SendKey
    <3>6. x \in Means(SendKey(u, q)')
      BY <3>2, <3>5
    <3>7. Means(SendKey(u, q))' = Means(SendKey(u, q)')
      OBVIOUS
    <3> QED
      BY <3>1, <3>4, <3>6, <3>7 DEF HeldBySome
  <2> QED
    BY <1>1, <1>2, <2>2, <2>3, <2>4
<1>6. ASSUME NEW v \in Viewers, Toggle(v) PROVE NoStuckKey'
  <2>1. /\ mods' = mods /\ pressed' = pressed /\ held' = held
        /\ enabled' = [enabled EXCEPT ![v] = ~@]
        /\ stale' = stale \cup ((Down(v) \ Down(v)') \cap (mods \cup ToSet(pressed)))
    BY <1>6 DEF Toggle, sinkVars
  <2>2. ASSUME NEW x \in mods' \cup ToSet(pressed') PROVE x \in stale' \/ HeldBySome(x)'
    <3>1. x \in mods \cup ToSet(pressed)
      BY <2>1
    <3>2. CASE x \in stale
      BY <2>1, <3>2
    <3>3. CASE HeldBySome(x)
      <4>1. PICK u \in Viewers : \E q \in held[u] : x \in Means(SendKey(u, q))
        BY <3>3 DEF HeldBySome
      <4>2. CASE u = v
        <5>1. x \in Down(v)
          BY <4>1, <4>2 DEF Down
        <5>2. x \in Down(v)' => HeldBySome(x)'
          BY DEF Down, HeldBySome
        <5> QED
          BY <2>1, <3>1, <5>1, <5>2
      <4>3. CASE u # v
        BY <1>3, <2>1, <4>1, <4>3 DEF HeldBySome, SendKey
      <4> QED
        BY <4>2, <4>3
    <3> QED
      BY <1>1, <3>1, <3>2, <3>3
  <2> QED
    BY <1>2, <2>2
<1>7. ASSUME NEW v \in Viewers, Leave(v) PROVE NoStuckKey'
  <2>1. /\ mods' = mods /\ pressed' = pressed /\ held' = [held EXCEPT ![v] = {}]
        /\ enabled' = enabled
        /\ stale' = stale \cup (Down(v) \cap (mods \cup ToSet(pressed)))
    BY <1>7 DEF Leave, sinkVars
  <2>2. ASSUME NEW x \in mods' \cup ToSet(pressed') PROVE x \in stale' \/ HeldBySome(x)'
    <3>1. x \in mods \cup ToSet(pressed)
      BY <2>1
    <3>2. CASE x \in stale
      BY <2>1, <3>2
    <3>3. CASE HeldBySome(x)
      <4>1. PICK u \in Viewers : \E q \in held[u] : x \in Means(SendKey(u, q))
        BY <3>3 DEF HeldBySome
      <4>2. CASE u = v
        <5>1. x \in Down(v)
          BY <4>1, <4>2 DEF Down
        <5> QED
          BY <2>1, <3>1, <5>1
      <4>3. CASE u # v
        BY <1>3, <2>1, <4>1, <4>3 DEF HeldBySome, SendKey
      <4> QED
        BY <4>2, <4>3
    <3> QED
      BY <1>1, <3>1, <3>2, <3>3
  <2> QED
    BY <1>2, <2>2
<1>8. ASSUME UNCHANGED <<mods, pressed, held, enabled, stale>> PROVE NoStuckKey'
  BY <1>8 DEF NoStuckKey, Down, SendKey
<1>9. ASSUME NEW v \in Viewers, NEW px \in Pixels, PointerEvent(v, px) PROVE NoStuckKey'
  BY <1>8, <1>9 DEF PointerEvent, sinkVars, histVars
<1>10. ASSUME NEW v \in Viewers, NEW clip \in Texts, CutText(v, clip) PROVE NoStuckKey'
  BY <1>8, <1>10 DEF CutText, sinkVars, pageVars, histVars
<1>11. ASSUME NEW v \in Viewers, SendReport(v) PROVE NoStuckKey'
  BY <1>8, <1>11 DEF SendReport, sinkVars, pageVars, histVars
<1>12. ASSUME NEW w \in Sizes, SetFrameSize(w) PROVE NoStuckKey'
  BY <1>8, <1>12 DEF SetFrameSize, histVars
<1>13. ASSUME NEW n \in Pastes, PasteStep(n) PROVE NoStuckKey'
  BY <1>8, <1>13 DEF PasteStep, PasteDown, PasteUp, PasteEnd, PasteCancelled, sinkVars, pageVars,
                     histVars
<1>14. CASE Publish \/ SessionEnds \/ UNCHANGED vars
  BY <1>8, <1>14 DEF Publish, SessionEnds, vars, sinkVars, pageVars, histVars
<1> QED
  BY <1>4, <1>5, <1>6, <1>7, <1>9, <1>10, <1>11, <1>12, <1>13, <1>14 DEF Next

-----------------------------------------------------------------------------
(* The host's keyboard.                                                    *)

\* A viewer's reader has one report in flight at most.
LEMMA InFlight ==
  ASSUME TypeOK, NEW v \in Viewers, flight[v] # <<>>
  PROVE  \E r \in Reports : flight[v] = <<r>> /\ Head(flight[v]) = r
<1>1. PICK r \in Reports : flight[v] = <<r>>
  BY DEF TypeOK
<1>2. Head(<<r>>) = r
  OBVIOUS
<1> QED
  BY <1>1, <1>2

\* Once the reports in flight are written the host is in the sink's state.
LEMMA SyncStep ==
  TypeOK /\ OneInFlight /\ HostInSync /\ [Next]_vars => OneInFlight' /\ HostInSync'
<1> SUFFICES ASSUME TypeOK, OneInFlight, HostInSync, [Next]_vars PROVE OneInFlight' /\ HostInSync'
  OBVIOUS
<1>1. flight \in [Viewers -> {<<>>} \cup {<<r>> : r \in Reports}]
  BY DEF TypeOK
<1>2. ASSUME UNCHANGED <<mods, pressed, flight, raced>>,
             byKey' => byKey /\ host' = host, over => over'
      PROVE  OneInFlight' /\ HostInSync'
  <2>1. OneInFlight'
    BY <1>2 DEF OneInFlight, KeyboardInFlight
  <2>2. HostInSync'
    BY <1>2 DEF HostInSync, KeyboardInFlight
  <2> QED
    BY <2>1, <2>2
<1>3. ASSUME NEW v \in Viewers, NEW ks, NEW down, KeyEvent(v, ks, down), UNCHANGED <<over, hostVars>>
      PROVE  OneInFlight' /\ HostInSync'
  <2>1. CASE ~(published /\ Means(ks) # {})
    BY <1>2, <1>3, <2>1 DEF KeyEvent, hostVars
  <2>2. CASE published /\ Means(ks) # {}
    <3>1. PICK r : r = Keyboard(mods', ToSet(pressed'))
      OBVIOUS
    <3>2. /\ flight' = [flight EXCEPT ![v] = <<r>>]
          /\ raced' = \E o \in Viewers \ {v} : KeyboardInFlight(o)
      BY <1>3, <2>2, <3>1 DEF KeyEvent
    <3>3. r.dev = "keyboard"
      BY <3>1 DEF Keyboard
    <3>4. flight'[v] = <<r>> /\ Head(<<r>>) = r /\ <<r>> # <<>>
      BY <1>1, <3>2
    <3>5. KeyboardInFlight(v)' /\ Head(flight'[v]) = r
      BY <3>3, <3>4 DEF KeyboardInFlight
    <3>6. \A o \in Viewers : o # v => (KeyboardInFlight(o)' <=> KeyboardInFlight(o))
      BY <1>1, <3>2 DEF KeyboardInFlight
    <3>7. ~raced' => \A o \in Viewers : o # v => ~KeyboardInFlight(o)
      BY <3>2, Zenon
    <3>8. OneInFlight'
      BY <3>1, <3>5, <3>6, <3>7 DEF OneInFlight
    <3>9. HostInSync'
      BY <3>5 DEF HostInSync
    <3> QED
      BY <3>8, <3>9
  <2> QED
    BY <2>1, <2>2
<1>4. ASSUME NEW v \in Viewers, NEW p \in Phys, KeyDown(v, p) \/ KeyUp(v, p)
      PROVE  OneInFlight' /\ HostInSync'
  <2>1. PICK ks : ks = SendKey(v, p)
    OBVIOUS
  <2>2. (KeyEvent(v, ks, TRUE) \/ KeyEvent(v, ks, FALSE)) /\ UNCHANGED <<over, hostVars>>
    BY <1>4, <2>1 DEF KeyDown, KeyUp
  <2> QED
    BY <1>3, <2>2
<1>5. ASSUME NEW v \in Viewers, NEW px \in Pixels, PointerEvent(v, px)
      PROVE  OneInFlight' /\ HostInSync'
  <2>1. PICK r : r = Mouse(px, size, ScaleAbs(px, size))
    OBVIOUS
  <2>2. r.dev = "mouse"
    BY <2>1 DEF Mouse
  <2>3. /\ flight[v] = <<>> /\ flight' = [flight EXCEPT ![v] = <<r>>]
        /\ UNCHANGED <<mods, pressed, raced, over, byKey, host>>
    BY <1>5, <2>1 DEF PointerEvent, sinkVars, hostVars, histVars
  <2>4. flight'[v] = <<r>> /\ Head(<<r>>) = r
    BY <1>1, <2>3
  <2>5. ~KeyboardInFlight(v) /\ ~KeyboardInFlight(v)'
    BY <2>2, <2>3, <2>4 DEF KeyboardInFlight
  <2>6. \A o \in Viewers : o # v => flight'[o] = flight[o]
    BY <1>1, <2>3
  <2>7. \A o \in Viewers : /\ KeyboardInFlight(o)' <=> KeyboardInFlight(o)
                           /\ KeyboardInFlight(o) => flight'[o] = flight[o]
    BY <2>5, <2>6 DEF KeyboardInFlight
  <2>8. OneInFlight'
    BY <2>3, <2>7 DEF OneInFlight
  <2>9. HostInSync'
    BY <2>3, <2>7 DEF HostInSync
  <2> QED
    BY <2>8, <2>9
<1>6. ASSUME NEW v \in Viewers, SendReport(v) PROVE OneInFlight' /\ HostInSync'
  <2>1. /\ flight[v] # <<>> /\ flight' = [flight EXCEPT ![v] = <<>>]
        /\ Write(Head(flight[v]))
        /\ byKey' = (byKey \/ KeyboardInFlight(v))
        /\ UNCHANGED <<mods, pressed, raced, over>>
    BY <1>6 DEF SendReport, sinkVars, histVars
  <2>2. /\ flight'[v] = <<>>
        /\ \A o \in Viewers : o # v => flight'[o] = flight[o]
    BY <1>1, <2>1
  <2>3. ~KeyboardInFlight(v)' /\ \A o \in Viewers : o # v => (KeyboardInFlight(o)' <=> KeyboardInFlight(o))
    BY <2>2 DEF KeyboardInFlight
  <2>4. OneInFlight'
    BY <2>1, <2>2, <2>3 DEF OneInFlight
  <2>5. HostInSync'
    <3> SUFFICES ASSUME byKey', ~raced, ~over, \A o \in Viewers : ~KeyboardInFlight(o)'
                 PROVE  host' = [mods |-> mods, keys |-> ToSet(pressed)]
      BY <2>1 DEF HostInSync
    <3>1. \A o \in Viewers : o # v => ~KeyboardInFlight(o)
      BY <2>3
    <3>2. PICK r : r = Head(flight[v])
      OBVIOUS
    <3>3. HostGets(r)
      BY <2>1, <3>2 DEF Write
    <3>4. CASE KeyboardInFlight(v)
      <4>1. r.dev = "keyboard" /\ r = Keyboard(mods, ToSet(pressed))
        BY <3>2, <3>4 DEF OneInFlight, KeyboardInFlight
      <4>2. host' = [mods |-> r.mods, keys |-> r.keys]
        BY <3>3, <4>1 DEF HostGets
      <4>3. r.mods = mods /\ r.keys = ToSet(pressed)
        BY <4>1 DEF Keyboard
      <4> QED
        BY <4>2, <4>3
    <3>5. CASE ~KeyboardInFlight(v)
      <4>1. r.dev # "keyboard"
        BY <2>1, <3>2, <3>5 DEF KeyboardInFlight
      <4>2. host' = host
        BY <3>3, <4>1 DEF HostGets
      <4>3. byKey
        BY <2>1, <3>5, Zenon
      <4> QED
        BY <3>1, <3>5, <4>2, <4>3 DEF HostInSync
    <3> QED
      BY <3>4, <3>5
  <2> QED
    BY <2>4, <2>5
<1>7. ASSUME NEW n \in Pastes, PasteStep(n) PROVE OneInFlight' /\ HostInSync'
  <2>1. UNCHANGED <<mods, pressed, flight, raced, over>>
    BY <1>7 DEF PasteStep, PasteDown, PasteUp, PasteEnd, PasteCancelled, sinkVars, histVars
  <2>2. byKey' => byKey /\ host' = host
    BY <1>7 DEF PasteStep, PasteDown, PasteUp, PasteEnd, PasteCancelled, hostVars
  <2> QED
    BY <1>2, <2>1, <2>2
<1>8. ASSUME NEW v \in Viewers, NEW clip \in Texts, CutText(v, clip) PROVE OneInFlight' /\ HostInSync'
  BY <1>2, <1>8 DEF CutText, sinkVars, histVars
<1>9. ASSUME NEW v \in Viewers, Toggle(v) \/ Leave(v) PROVE OneInFlight' /\ HostInSync'
  BY <1>2, <1>9 DEF Toggle, Leave, sinkVars, hostVars
<1>10. ASSUME NEW w \in Sizes, SetFrameSize(w) PROVE OneInFlight' /\ HostInSync'
  BY <1>2, <1>10 DEF SetFrameSize, hostVars, histVars
<1>11. CASE Publish \/ SessionEnds \/ UNCHANGED vars
  BY <1>2, <1>11 DEF Publish, SessionEnds, vars, sinkVars, hostVars, histVars
<1> QED
  BY <1>4, <1>5, <1>6, <1>7, <1>8, <1>9, <1>10, <1>11 DEF Next

-----------------------------------------------------------------------------
(* Pointer reports.                                                        *)

\* The scaled position is on the grid, and half a pixel away from the exact one at most.
LEMMA ScaleNearest ==
  ASSUME NEW px \in Nat, NEW w \in Nat \ {0}, NEW q, q = ScaleAbs(px, w),
         NEW c, c = IF px > w THEN w ELSE px
  PROVE  /\ q \in 0..AbsMax
         /\ 2 * (q * w - c * AbsMax) <= w /\ -2 * (q * w - c * AbsMax) <= w
<1>1. AbsMax \in Nat
  BY HidAssumption
<1>2. c \in Nat /\ c <= w
  OBVIOUS
<1>3. PICK h \in Nat : h = w \div 2 /\ 2 * h <= w /\ w <= 2 * h + 1
  OBVIOUS
<1>4. PICK a \in Nat : a = c * AbsMax
  BY <1>1, <1>2
<1>5. a <= w * AbsMax
  <2>1. PICK d \in Nat : w = c + d
    BY <1>2
  <2>2. d * AbsMax \in Nat
    BY <1>1
  <2>3. w * AbsMax = c * AbsMax + d * AbsMax
    BY <1>1, <1>2, <2>1
  <2> QED
    BY <1>1, <1>2, <1>4, <2>2, <2>3
<1>6. q = (a + h) \div w
  BY <1>3, <1>4 DEF ScaleAbs
<1>7. q \in Nat /\ q * w <= a + h /\ a + h < q * w + w
  BY <1>6
<1>8. q <= AbsMax
  <2> SUFFICES ASSUME q >= AbsMax + 1 PROVE FALSE
    BY <1>1, <1>7
  <2>1. PICK d \in Nat : q = AbsMax + 1 + d
    <3>1. q \in Nat
      BY <1>7
    <3>2. q - (AbsMax + 1) \in Nat /\ q = AbsMax + 1 + (q - (AbsMax + 1))
      BY <1>1, <3>1
    <3> QED
      BY <3>2
  <2>2. q * w = w * AbsMax + w + d * w /\ d * w \in Nat
    BY <1>1, <2>1
  <2>3. PICK m \in Nat : m = w * AbsMax
    BY <1>1
  <2>4. PICK e \in Nat : e = d * w
    BY <2>2
  <2>5. m + w + e <= a + h /\ a <= m /\ h < w
    BY <1>3, <1>5, <1>7, <2>2, <2>3, <2>4
  <2> QED
    BY <2>5
<1>9. PICK m \in Nat : m = q * w
  BY <1>7
<1>10. 2 * (m - a) <= w /\ -2 * (m - a) <= w
  BY <1>3, <1>7, <1>9
<1> QED
  BY <1>1, <1>4, <1>7, <1>8, <1>9, <1>10

\* So are the pointer reports in flight.
LEMMA OnTarget == TypeOK => PointerOnTarget
<1> SUFFICES ASSUME TypeOK, NEW v \in Viewers, flight[v] # <<>>, ~KeyboardInFlight(v),
                    NEW m, m = Head(flight[v]),
                    NEW px, px = (IF m.x > m.w THEN m.w ELSE m.x),
                    NEW off, off = m.pos * m.w - px * AbsMax
             PROVE  m.pos \in 0..AbsMax /\ 2 * off <= m.w /\ -2 * off <= m.w
  BY DEF PointerOnTarget
<1>1. m \in Reports /\ m.dev # "keyboard"
  BY InFlight DEF KeyboardInFlight
<1>2. PICK x \in Pixels, w \in Sizes : m = Mouse(x, w, ScaleAbs(x, w))
  <2>1. ASSUME NEW a, NEW b, m = Keyboard(a, b) PROVE m.dev = "keyboard"
    BY <2>1 DEF Keyboard
  <2> QED
    BY <1>1, <2>1 DEF Reports
<1>3. Sizes \subseteq Nat \ {0}
  BY HidAssumption
<1>4. x \in Nat
  BY <1>3 DEF Pixels
<1>5. PICK q : q = ScaleAbs(x, w)
  OBVIOUS
<1>6. m.x = x /\ m.w = w /\ m.pos = q
  BY <1>2, <1>5 DEF Mouse
<1>7. px = IF x > w THEN w ELSE x
  BY <1>6
<1>8. /\ q \in 0..AbsMax
      /\ 2 * (q * w - px * AbsMax) <= w /\ -2 * (q * w - px * AbsMax) <= w
  BY <1>3, <1>4, <1>5, <1>7, ScaleNearest
<1>9. off = q * w - px * AbsMax
  BY <1>6
<1> QED
  BY <1>6, <1>8, <1>9

-----------------------------------------------------------------------------
(* Pastes.                                                                 *)

\* The places of mapped runes, one rune further.
LEMMA MappedNext ==
  ASSUME NEW k \in Nat
  PROVE  /\ IsFiniteSet(Mapped(k)) /\ Cardinality(Mapped(k)) \in Nat
         /\ Mapped(0) = {} /\ k + 1 \notin Mapped(k)
         /\ AsciiToUsage(text[k + 1]) = {} => Mapped(k + 1) = Mapped(k)
         /\ AsciiToUsage(text[k + 1]) # {} =>
              /\ Mapped(k + 1) = Mapped(k) \cup {k + 1}
              /\ Cardinality(Mapped(k + 1)) = Cardinality(Mapped(k)) + 1
<1>1. IsFiniteSet(1..k)
  BY FS_Interval
<1>2. Mapped(k) \subseteq 1..k
  BY DEF Mapped
<1>3. IsFiniteSet(Mapped(k))
  BY <1>1, <1>2, FS_Subset
<1>4. Cardinality(Mapped(k)) \in Nat
  BY <1>3, FS_CardinalityType
<1>5. \A i : i \in 1..(k + 1) <=> i \in 1..k \/ i = k + 1
  OBVIOUS
<1>6. k + 1 \notin Mapped(k)
  BY <1>2
<1>7. Mapped(0) = {}
  BY DEF Mapped
<1>8. AsciiToUsage(text[k + 1]) = {} => Mapped(k + 1) = Mapped(k)
  BY <1>5 DEF Mapped
<1>9. AsciiToUsage(text[k + 1]) # {} => Mapped(k + 1) = Mapped(k) \cup {k + 1}
  BY <1>5 DEF Mapped
<1>10. Cardinality(Mapped(k) \cup {k + 1}) = Cardinality(Mapped(k)) + 1
  BY <1>3, <1>6, FS_AddElement
<1> QED
  BY <1>3, <1>4, <1>6, <1>7, <1>8, <1>9, <1>10

\* A rune that is not mapped is skipped, ...
LEMMA RuneSkipped ==
  ASSUME NEW k \in Nat, TypedUpTo(k), AsciiToUsage(text[k + 1]) = {}
  PROVE  TypedUpTo(k + 1)
<1>1. Mapped(k + 1) = Mapped(k)
  BY MappedNext
<1> QED
  BY <1>1 DEF TypedUpTo

\* ... and one that is, is the next one seen.
LEMMA RuneTyped ==
  ASSUME NEW k \in Nat, TypedUpTo(k), AsciiToUsage(text[k + 1]) # {},
         typed \in Seq([key : Codes, shift : BOOLEAN]),
         NEW e \in [key : Codes, shift : BOOLEAN],
         e = [key |-> usbUsage[text[k + 1]], shift |-> text[k + 1] \in shifted],
         text' = text, typed' = Append(typed, e)
  PROVE  TypedUpTo(k + 1)'
<1>1. PICK n \in Nat : n = Cardinality(Mapped(k))
  BY MappedNext
<1>2. /\ Mapped(k + 1) = Mapped(k) \cup {k + 1} /\ Cardinality(Mapped(k + 1)) = n + 1
      /\ IsFiniteSet(Mapped(k))
  BY <1>1, MappedNext
<1>3. Len(typed) = n /\ \A i \in Mapped(k) : typed[Cardinality(Mapped(i))] =
                          [key |-> usbUsage[text[i]], shift |-> text[i] \in shifted]
  BY <1>1 DEF TypedUpTo
<1>4. \A i : Mapped(i)' = Mapped(i)
  BY DEF Mapped
<1>5. /\ Len(typed') = n + 1 /\ typed'[n + 1] = e
      /\ \A j \in 1..n : typed'[j] = typed[j]
  BY <1>3
<1>6. ASSUME NEW i \in Mapped(k) PROVE Cardinality(Mapped(i)) \in 1..n
  <2>1. i \in 1..k /\ AsciiToUsage(text[i]) # {}
    BY DEF Mapped
  <2>2. i \in Mapped(i) /\ Mapped(i) \subseteq Mapped(k)
    BY <2>1 DEF Mapped
  <2>3. IsFiniteSet(Mapped(i)) /\ Cardinality(Mapped(i)) \in Nat
    BY <2>1, MappedNext
  <2>4. Cardinality(Mapped(i)) <= n
    BY <1>1, <1>2, <2>2, FS_Subset
  <2>5. Cardinality(Mapped(i)) # 0
    BY <2>2, <2>3, FS_EmptySet
  <2> QED
    BY <2>3, <2>4, <2>5
<1>7. ASSUME NEW i \in Mapped(k + 1)
      PROVE  typed'[Cardinality(Mapped(i))] =
               [key |-> usbUsage[text[i]], shift |-> text[i] \in shifted]
  <2>1. CASE i \in Mapped(k)
    BY <1>3, <1>5, <1>6, <2>1
  <2>2. CASE i = k + 1
    BY <1>2, <1>5, <2>2
  <2> QED
    BY <1>2, <2>1, <2>2
<1> QED
  BY <1>2, <1>4, <1>5, <1>7 DEF TypedUpTo

\* What the host sees when a key goes down alone: one press; and when all is released: none.
LEMMA OnePress ==
  ASSUME NEW m, NEW u
  PROVE  Presses(Released, Keyboard(m, {u})) = <<[key |-> u, shift |-> "lshift" \in m]>>
<1>1. PICK r : r = Keyboard(m, {u})
  OBVIOUS
<1>2. r.keys = {u} /\ r.mods = m /\ Released.keys = {}
  BY <1>1 DEF Keyboard, Released
<1>3. PICK S : S = r.keys \ Released.keys
  OBVIOUS
<1>4. S = {u} /\ Cardinality(S) = 1
  BY <1>2, <1>3, FS_Singleton
<1>5. SetToSeq(S)[1] = u
  <2>1. PICK f : f = [i \in 1..1 |-> u]
    OBVIOUS
  <2>2. f \in [1..Cardinality(S) -> S] /\ IsInjective(f)
    BY <1>4, <2>1 DEF IsInjective
  <2>3. SetToSeq(S) \in [1..Cardinality(S) -> S]
    BY <2>2 DEF SetToSeq
  <2> QED
    BY <1>4, <2>3
<1>6. PICK q : q = [i \in 1..1 |-> [key |-> SetToSeq(S)[i], shift |-> "lshift" \in m]]
  OBVIOUS
<1>7. q = <<[key |-> u, shift |-> "lshift" \in m]>>
  BY <1>5, <1>6
<1>8. Presses(Released, r) = q
  BY <1>2, <1>3, <1>4, <1>6 DEF Presses
<1> QED
  BY <1>1, <1>7, <1>8

\* Likewise.
LEMMA NoPress ==
  ASSUME NEW old, NEW m
  PROVE  Presses(old, Keyboard(m, {})) = <<>>
<1>1. PICK r : r = Keyboard(m, {})
  OBVIOUS
<1>2. r.keys = {} /\ r.mods = m
  BY <1>1 DEF Keyboard
<1>3. Cardinality(r.keys \ old.keys) = 0
  BY <1>2, FS_EmptySet
<1>4. PICK q : q = Presses(old, r)
  OBVIOUS
<1>5. q = [i \in 1..0 |-> [key |-> SetToSeq(r.keys \ old.keys)[i], shift |-> "lshift" \in r.mods]]
  BY <1>3, <1>4 DEF Presses
<1>6. q \in Seq({}) /\ Len(q) = 0
  BY <1>5
<1> QED
  BY <1>1, <1>4, <1>6

\* A paste nothing interferes with goes on as it should.
LEMMA PastingStep == TypeOK /\ Pasting /\ [Next]_vars => Pasting'
<1> SUFFICES ASSUME TypeOK, Pasting, [Next]_vars PROVE Pasting'
  OBVIOUS
<1>1. /\ paste \in [Pastes -> [todo : Seq(STRING), at : {"off", "next", "hold", "gap"}]]
      /\ started \in 0..MaxPastes /\ MaxPastes \in Nat
      /\ text \in Seq(STRING)
      /\ \A n \in Pastes : paste[n].at = "hold" => paste[n].todo # <<>>
  BY HidAssumption DEF TypeOK
<1>2. ASSUME UNCHANGED <<paste, started, text>>,
             started > 0 /\ ~mixed' => ~mixed /\ (~over' => ~over /\ UNCHANGED <<host, typed>>)
      PROVE  Pasting'
  <2>1. ASSUME Typing, UNCHANGED <<host, typed>> PROVE Typing'
    <3>1. Taken' = Taken
      BY <1>2 DEF Taken
    <3>2. \A i : Mapped(i)' = Mapped(i)
      BY <1>2 DEF Mapped
    <3>3. \A k : TypedUpTo(k) => TypedUpTo(k)'
      BY <1>2, <2>1, <3>2 DEF TypedUpTo
    <3>4. /\ TypedUpTo(Taken) => TypedUpTo(Taken)'
          /\ TypedUpTo(Taken + 1) => TypedUpTo(Taken + 1)'
      BY <3>1, <3>3
    <3> QED
      BY <1>2, <2>1, <3>1, <3>4 DEF Typing
  <2> QED
    BY <1>2, <2>1 DEF Pasting
<1>3. ASSUME NEW v \in Viewers, SendReport(v) PROVE Pasting'
  <2>1. /\ UNCHANGED <<paste, started, text, over>>
        /\ Write(Head(flight[v]))
        /\ mixed' = (started > 0 /\ (mixed \/ KeyboardInFlight(v)))
        /\ flight[v] # <<>>
    BY <1>3 DEF SendReport
  <2>2. started > 0 /\ ~mixed' => ~mixed /\ ~KeyboardInFlight(v)
    BY <2>1, Zenon
  <2>3. ~KeyboardInFlight(v) => Head(flight[v]).dev # "keyboard"
    BY <2>1 DEF KeyboardInFlight
  <2>4. ~KeyboardInFlight(v) => UNCHANGED <<host, typed>>
    BY <2>1, <2>3 DEF Write, HostGets
  <2> QED
    BY <1>2, <2>1, <2>2, <2>4
<1>4. ASSUME NEW v \in Viewers, NEW clip \in Texts, CutText(v, clip) PROVE Pasting'
  <2>1. PICK n : n = started + 1
    OBVIOUS
  <2>2. /\ n \in Pastes /\ started' = n
        /\ paste' = [paste EXCEPT ![n] = [todo |-> clip, at |-> "next"]]
        /\ text' = clip /\ typed' = <<>> /\ host' = host /\ over' = over
        /\ mixed' = (host # Released \/ \E m \in Pastes : paste[m].at # "off")
    BY <1>1, <1>4, <2>1 DEF CutText, Pastes
  <2>3. /\ paste'[n] = [todo |-> clip, at |-> "next"]
        /\ \A m \in Pastes : m # n => paste'[m] = paste[m]
    BY <1>1, <2>2
  <2>4. \A m \in Pastes : m > n => paste'[m].at = "off"
    BY <1>1, <2>1, <2>3 DEF Pasting, Pastes
  <2>5. ASSUME ~mixed' PROVE (\A m \in Pastes : m # n => paste'[m].at = "off") /\ Typing'
    <3>1. host = Released /\ \A m \in Pastes : paste[m].at = "off"
      BY <2>2, <2>5, Zenon
    <3>2. clip \in Seq(STRING)
      BY HidAssumption
    <3>3. PICK todo : todo = paste'[n].todo
      OBVIOUS
    <3>4. todo = clip /\ paste'[n].at = "next"
      BY <2>3, <3>3
    <3>5. Taken' = 0
      <4>1. Taken' = Len(text') - Len(paste'[n].todo)
        BY <2>2 DEF Taken
      <4> QED
        BY <2>2, <3>2, <3>3, <3>4, <4>1
    <3>6. typed' \in Seq([key : Codes, shift : BOOLEAN]) /\ Len(typed') = 0
      BY <2>2
    <3>7. Mapped(0)' = {}
      BY DEF Mapped
    <3>8. TypedUpTo(0)'
      BY <3>6, <3>7, FS_EmptySet DEF TypedUpTo
    <3>9. TypedUpTo(Taken)'
      BY <3>5, <3>8
    <3>10. /\ Taken' \in 0..Len(text')
           /\ \A i \in DOMAIN todo : todo[i] = text'[Taken' + i]
      BY <2>2, <3>2, <3>4, <3>5
    <3>11. Typing'
      BY <2>2, <3>1, <3>3, <3>4, <3>6, <3>9, <3>10 DEF Typing
    <3> QED
      BY <2>3, <3>1, <3>11
  <2> QED
    BY <2>2, <2>4, <2>5 DEF Pasting
<1>5. ASSUME NEW n \in Pastes, PasteStep(n) PROVE Pasting'
  <2>1. UNCHANGED <<started, text, mixed, over>> /\ paste[n].at # "off"
    BY <1>5 DEF PasteStep, PasteDown, PasteUp, PasteEnd, PasteCancelled
  <2>2. n <= started /\ started > 0
    BY <1>1, <2>1 DEF Pasting, Pastes
  <2>3. \A m \in Pastes : m # n => paste'[m] = paste[m]
    BY <1>1, <1>5 DEF PasteStep, PasteDown, PasteUp, PasteEnd, PasteCancelled
  <2>4. \A m \in Pastes : m > started => paste'[m].at = "off"
    <3>1. \A m \in Pastes : m > started => paste[m].at = "off"
      BY DEF Pasting
    <3>2. \A m \in Pastes : m > started => m # n
      BY <1>1, <2>2 DEF Pastes
    <3> QED
      BY <2>3, <3>1, <3>2
  <2>5. ASSUME ~mixed
        PROVE  n = started /\ \A m \in Pastes : m # started => paste'[m].at = "off"
    BY <1>1, <2>1, <2>2, <2>3, <2>5 DEF Pasting, Pastes
  <2>6. ASSUME ~mixed, ~over PROVE Typing'
    <3>1. n = started /\ Typing
      BY <2>2, <2>5, <2>6 DEF Pasting
    <3>2. PICK todo \in Seq(STRING) : todo = paste[n].todo
      BY <1>1
    <3>3. PICK k \in 0..Len(text) : k = Taken
      BY <3>1 DEF Typing
    <3>4. k = Len(text) - Len(todo) /\ Len(text) \in Nat /\ Len(todo) \in Nat /\ k \in Nat
      BY <1>1, <3>1, <3>2, <3>3 DEF Taken
    <3>5. /\ typed \in Seq([key : Codes, shift : BOOLEAN])
          /\ \A i \in DOMAIN todo : todo[i] = text[k + i]
      BY <3>1, <3>2, <3>3 DEF Typing
    <3>6. DOMAIN todo = 1..Len(todo)
      OBVIOUS
    <3>7. todo # <<>> => Head(todo) = text[k + 1] /\ k + 1 \in 0..Len(text)
      <4> SUFFICES ASSUME todo # <<>> PROVE Head(todo) = text[k + 1] /\ k + 1 \in 0..Len(text)
        OBVIOUS
      <4>1. Len(todo) >= 1 /\ Head(todo) = todo[1]
        OBVIOUS
      <4> QED
        BY SMTT(60), <3>4, <3>5, <3>6, <4>1
    <3>8. PICK t : t = Tail(todo)
      OBVIOUS
    <3>9. todo # <<>> => /\ t \in Seq(STRING) /\ Len(t) = Len(todo) - 1
                         /\ \A i \in DOMAIN t : i \in Nat /\ t[i] = todo[i + 1] /\ i + 1 \in DOMAIN todo
      BY <3>8
    <3>10. ASSUME NEW new, new = paste'[n].todo, todo # <<>>, new = t
           PROVE  Taken' = k + 1 /\ \A i \in DOMAIN new : new[i] = text'[Taken' + i]
      <4>1. Taken' = Len(text) - Len(new)
        BY <2>1, <3>1, <3>10 DEF Taken
      <4>2. Taken' = k + 1
        BY SMTT(60), <3>4, <3>9, <3>10, <4>1
      <4>3. ASSUME NEW i \in DOMAIN t PROVE t[i] = text[(k + 1) + i]
        <5>1. i \in Nat /\ t[i] = todo[i + 1] /\ i + 1 \in DOMAIN todo
          BY <3>9, <3>10
        <5>2. k + (i + 1) = (k + 1) + i
          BY <3>4, <5>1
        <5>3. todo[i + 1] = text[k + (i + 1)]
          BY <3>5, <5>1
        <5> QED
          BY <5>1, <5>2, <5>3
      <4> QED
        BY <2>1, <3>10, <4>2, <4>3
    <3>11. ASSUME paste'[n].todo = todo
           PROVE  Taken' = k
      BY <2>1, <3>1, <3>4, <3>11 DEF Taken
    <3>12. ASSUME UNCHANGED typed, NEW j, TypedUpTo(j) PROVE TypedUpTo(j)'
      BY <2>1, <3>12 DEF TypedUpTo, Mapped
    <3>13. CASE PasteDown(n) /\ AsciiToUsage(Head(todo)) # {}
      <4>1. /\ todo # <<>> /\ paste[n].at # "hold"
            /\ Write(Keyboard(Shift(Head(todo)), AsciiToUsage(Head(todo))))
            /\ paste' = [paste EXCEPT ![n].at = "hold"]
        BY <3>2, <3>13 DEF PasteDown
      <4>2. paste'[n].todo = todo /\ paste'[n].at = "hold"
        BY <1>1, <3>2, <4>1
      <4>3. host = Released /\ TypedUpTo(k)
        BY <3>1, <3>3, <4>1 DEF Typing
      <4>4. PICK r : r = Head(todo)
        OBVIOUS
      <4>5. r \in STRING /\ r = text[k + 1] /\ AsciiToUsage(r) # {}
        BY <3>7, <3>13, <4>1, <4>4
      <4>6. r \in DOMAIN usbUsage /\ AsciiToUsage(r) = {usbUsage[r]}
        BY <4>5 DEF AsciiToUsage
      <4>7. PICK e : e = [key |-> usbUsage[r], shift |-> r \in shifted]
        OBVIOUS
      <4>8. e \in [key : Codes, shift : BOOLEAN]
        <5>1. usbUsage[r] \in Codes
          BY <4>6 DEF Codes
        <5>2. (r \in shifted) \in BOOLEAN
          OBVIOUS
        <5> QED
          BY <4>7, <5>1, <5>2
      <4>9. PICK rep : rep = Keyboard(Shift(r), {usbUsage[r]})
        OBVIOUS
      <4>10. rep.dev = "keyboard" /\ rep.mods = Shift(r) /\ rep.keys = AsciiToUsage(r)
        BY <4>6, <4>9 DEF Keyboard
      <4>11. HostGets(rep)
        BY <2>6, <4>1, <4>4, <4>6, <4>9 DEF Write
      <4>12. /\ host' = [mods |-> Shift(r), keys |-> AsciiToUsage(r)]
             /\ typed' = typed \o Presses(Released, rep)
        BY <2>1, <2>2, <2>6, <4>3, <4>10, <4>11 DEF HostGets
      <4>13. Presses(Released, rep) = <<e>>
        <5>1. "lshift" \in Shift(r) <=> r \in shifted
          BY DEF Shift
        <5>2. ("lshift" \in Shift(r)) = (r \in shifted)
          BY <5>1
        <5>3. Presses(Released, rep) = <<[key |-> usbUsage[r], shift |-> "lshift" \in Shift(r)]>>
          BY <4>9, OnePress
        <5> QED
          BY <4>7, <5>2, <5>3
      <4>14. typed' = Append(typed, e) /\ typed' \in Seq([key : Codes, shift : BOOLEAN])
        BY <3>5, <4>8, <4>12, <4>13
      <4>15. TypedUpTo(k + 1)'
        BY <2>1, <3>4, <3>5, <4>3, <4>5, <4>7, <4>8, <4>14, RuneTyped
      <4>16. Taken' = k
        BY <3>11, <4>2
      <4>17. TypedUpTo(Taken + 1)'
        BY <4>15, <4>16
      <4> QED
        BY SMTT(60), <2>1, <3>1, <3>4, <3>5, <4>1, <4>2, <4>4, <4>5, <4>12, <4>14, <4>16, <4>17 DEF Typing
    <3>14. CASE PasteDown(n) /\ AsciiToUsage(Head(todo)) = {}
      <4>1. /\ todo # <<>> /\ paste[n].at # "hold"
            /\ paste' = [paste EXCEPT ![n].todo = Tail(@), ![n].at = "next"]
            /\ UNCHANGED <<host, typed>>
        BY <3>2, <3>14 DEF PasteDown, hostVars
      <4>2. paste'[n].todo = t /\ paste'[n].at = "next"
        BY <1>1, <3>2, <3>8, <4>1
      <4>3. host = Released /\ TypedUpTo(k)
        BY <3>1, <3>3, <4>1 DEF Typing
      <4>4. TypedUpTo(k + 1)
        BY <3>4, <3>7, <3>14, <4>1, <4>3, RuneSkipped
      <4>5. TypedUpTo(k + 1)'
        BY <3>12, <4>1, <4>4
      <4>6. Taken' = k + 1 /\ \A i \in DOMAIN t : t[i] = text'[Taken' + i]
        BY <3>10, <4>1, <4>2
      <4>7. TypedUpTo(Taken)'
        BY <4>5, <4>6
      <4>8. Taken' \in 0..Len(text')
        BY <2>1, <3>7, <4>1, <4>6
      <4> QED
        BY <2>1, <3>1, <3>5, <4>1, <4>2, <4>3, <4>6, <4>7, <4>8 DEF Typing
    <3>15. CASE PasteUp(n)
      <4>1. /\ paste[n].at = "hold" /\ Write(Keyboard({}, {}))
            /\ paste' = [paste EXCEPT ![n].todo = Tail(@), ![n].at = "gap"]
        BY <3>15 DEF PasteUp
      <4>2. todo # <<>>
        BY <1>1, <3>2, <4>1
      <4>3. paste'[n].todo = t /\ paste'[n].at = "gap"
        BY <1>1, <3>2, <3>8, <4>1
      <4>4. TypedUpTo(k + 1)
        BY <3>1, <3>3, <4>1 DEF Typing
      <4>5. PICK rep : rep = Keyboard({}, {})
        OBVIOUS
      <4>6. rep.dev = "keyboard" /\ rep.mods = {} /\ rep.keys = {}
        BY <4>5 DEF Keyboard
      <4>7. HostGets(rep)
        BY <2>6, <4>1, <4>5 DEF Write
      <4>8. host' = Released /\ typed' = typed \o Presses(host, rep)
        BY <2>1, <2>2, <2>6, <4>6, <4>7 DEF HostGets, Released
      <4>9. typed' = typed
        BY <3>5, <4>5, <4>8, NoPress
      <4>10. TypedUpTo(k + 1)'
        BY <3>12, <4>4, <4>9
      <4>11. Taken' = k + 1 /\ \A i \in DOMAIN t : t[i] = text'[Taken' + i]
        BY <3>10, <4>2, <4>3
      <4>12. TypedUpTo(Taken)'
        BY <4>10, <4>11
      <4>13. Taken' \in 0..Len(text')
        BY <2>1, <3>7, <4>2, <4>11
      <4> QED
        BY <2>1, <3>1, <3>5, <4>3, <4>8, <4>9, <4>11, <4>12, <4>13 DEF Typing
    <3>16. CASE PasteEnd(n)
      <4>1. /\ paste[n].at # "hold" /\ todo = <<>>
            /\ paste' = [paste EXCEPT ![n].at = "off"]
            /\ UNCHANGED <<host, typed>>
        BY <3>2, <3>16 DEF PasteEnd, hostVars
      <4>2. paste'[n].todo = todo /\ paste'[n].at = "off"
        BY <1>1, <3>2, <4>1
      <4>3. host = Released /\ TypedUpTo(k)
        BY <3>1, <3>3, <4>1 DEF Typing
      <4>4. Taken' = k /\ TypedUpTo(k)'
        BY <3>11, <3>12, <4>1, <4>2, <4>3
      <4>5. TypedUpTo(Taken)'
        BY <4>4
      <4> QED
        BY <2>1, <3>1, <3>5, <4>1, <4>2, <4>3, <4>4, <4>5 DEF Typing
    <3>17. CASE PasteCancelled(n)
      BY <2>6, <3>17 DEF PasteCancelled
    <3> QED
      BY <1>5, <3>13, <3>14, <3>15, <3>16, <3>17 DEF PasteStep
  <2> QED
    BY <2>1, <2>4, <2>5, <2>6 DEF Pasting
<1>6. CASE Publish \/ SessionEnds \/ UNCHANGED vars
  BY <1>2, <1>6 DEF Publish, SessionEnds, vars, pasteVars, hostVars
<1>7. ASSUME NEW v \in Viewers, NEW p \in Phys, KeyDown(v, p) \/ KeyUp(v, p) PROVE Pasting'
  BY <1>2, <1>7 DEF KeyDown, KeyUp, pasteVars, hostVars
<1>8. ASSUME NEW v \in Viewers, NEW px \in Pixels, PointerEvent(v, px) PROVE Pasting'
  BY <1>2, <1>8 DEF PointerEvent, pasteVars, hostVars
<1>9. ASSUME NEW v \in Viewers, Toggle(v) \/ Leave(v) PROVE Pasting'
  BY <1>2, <1>9 DEF Toggle, Leave, pasteVars, hostVars
<1>10. ASSUME NEW w \in Sizes, SetFrameSize(w) PROVE Pasting'
  BY <1>2, <1>10 DEF SetFrameSize, pasteVars, hostVars
<1> QED
  BY <1>3, <1>4, <1>5, <1>6, <1>7, <1>8, <1>9, <1>10 DEF Next

-----------------------------------------------------------------------------
(* Theorems.                                                               *)

\* At first nothing is held, in flight or typed.
LEMMA InvInit == Init => Inv
<1> SUFFICES ASSUME Init PROVE Inv
  OBVIOUS
<1>1. TypeOK /\ SlotsOK
  BY TypeInit
<1>2. mods = {} /\ pressed = <<>> /\ ToSet(pressed) = {} /\ host = Released
  BY DEF Init, ToSet
<1>3. NoStuckKey
  BY <1>2 DEF NoStuckKey
<1>4. \A v \in Viewers : ~KeyboardInFlight(v)
  BY DEF Init, KeyboardInFlight
<1>5. OneInFlight /\ HostInSync
  BY <1>2, <1>4 DEF OneInFlight, HostInSync, Released
<1>6. Pasting
  BY <1>1 DEF Init, Pasting, NoPaste
<1> QED
  BY <1>1, <1>3, <1>5, <1>6 DEF Inv

\* All of it holds always.
THEOREM SinkSound == Spec => []Inv
<1>1. Inv /\ [Next]_vars => Inv'
  BY TypeStep, StuckStep, SyncStep, PastingStep DEF Inv
<1> QED
  BY InvInit, <1>1, PTL DEF Spec

\* What the sink reports as held is held by some viewer, or its release can no longer come.
THEOREM HeldSafety == Spec => []NoStuckKey
<1>1. Inv => NoStuckKey
  BY DEF Inv
<1> QED
  BY <1>1, SinkSound, PTL

\* Reports that did not cross leave the host's keyboard in the sink's state.
THEOREM SyncSafety == Spec => []HostInSync
<1>1. Inv => HostInSync
  BY DEF Inv
<1> QED
  BY <1>1, SinkSound, PTL

\* A paste nothing interferes with types its text, rune by rune, and releases everything.
THEOREM PasteSafety == Spec => []PasteExact
<1>1. Inv => PasteExact
  <2> SUFFICES ASSUME Inv, started > 0, ~mixed, ~over
               PROVE  /\ \E k \in 0..Len(text) : TypedUpTo(k)
                      /\ paste[started].at = "off" => TypedUpTo(Len(text)) /\ host = Released
    BY DEF PasteExact
  <2>1. Typing /\ TypeOK
    BY DEF Inv, Pasting
  <2>2. PICK todo \in Seq(STRING) : todo = paste[started].todo
    BY <2>1, HidAssumption DEF TypeOK, Pastes
  <2>3. PICK k \in 0..Len(text) : k = Taken
    BY <2>1 DEF Typing
  <2>4. k = Len(text) - Len(todo) /\ Len(text) \in Nat /\ Len(todo) \in Nat
    BY <2>1, <2>2, <2>3 DEF Taken, TypeOK
  <2>5. CASE paste[started].at = "hold"
    <3>1. todo # <<>> /\ TypedUpTo(k + 1)
      BY <2>1, <2>2, <2>3, <2>5 DEF Typing
    <3>2. Len(todo) >= 1
      BY <3>1
    <3> QED
      BY <2>3, <2>4, <2>5, <3>1, <3>2
  <2>6. CASE paste[started].at # "hold"
    <3>1. TypedUpTo(k) /\ host = Released
      BY <2>1, <2>3, <2>6 DEF Typing
    <3>2. paste[started].at = "off" => k = Len(text)
      BY <2>1, <2>2, <2>4 DEF Typing
    <3> QED
      BY <3>1, <3>2
  <2> QED
    BY <2>5, <2>6
<1> QED
  BY <1>1, SinkSound, PTL

\* Pointer reports are on the grid and as near as it allows.
THEOREM PointerSafety == Spec => []PointerOnTarget
<1>1. Inv => PointerOnTarget
  BY OnTarget DEF Inv
<1> QED
  BY <1>1, SinkSound, PTL

=============================================================================
