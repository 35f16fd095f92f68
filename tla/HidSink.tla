------------------------------- MODULE HidSink -------------------------------
(***************************************************************************)
(* The input path: the keyboard patch of the page, rfb's reader goroutines *)
(* calling the sink, lateSink, HIDSink with its held keys and its paste    *)
(* goroutines, and the reports the BMC turns into key presses.             *)
(*                                                                         *)
(* A viewer's RFB messages are read and handled one at a time, so a key    *)
(* press is one step up to the point where KeyEvent lets go of mu with its *)
(* report built; writing the report is another.  Modifier bits and usage   *)
(* codes are names, a report is its set of modifiers and of keys, and the  *)
(* screen has one dimension.                                               *)
(***************************************************************************)
EXTENDS Integers, Sequences, FiniteSets, SequencesExt

CONSTANTS
  Viewers,    \* RFB connections, each with its own reader goroutine
  Phys,       \* physical keys of the users
  Layout,     \* the keysym noVNC sends for each of them
  Usages,     \* CODE_TO_USAGE: the USB usage of each of them that is not a modifier
  Saved,      \* the keyboard mode each viewer's browser has stored
  Slots,      \* key slots of a report, 6
  Texts,      \* clipboards, as sequences of runes
  Sizes,      \* framebuffer widths
  DefaultSize, \* the width connectBMC starts with, 1024
  AbsMax,     \* largest absolute coordinate, 32767
  MaxActs,    \* bound on key-downs with repeats, mode changes, moves and new sizes
  MaxPastes   \* bound on pastes

ASSUME HidAssumption ==
  /\ Slots \in Nat /\ AbsMax \in Nat
  /\ Sizes \subseteq Nat \ {0} /\ DefaultSize \in Sizes
  /\ {MaxActs, MaxPastes} \subseteq Nat
  /\ DOMAIN Layout = Phys /\ DOMAIN Usages \subseteq Phys
  /\ \A p \in DOMAIN Usages : Usages[p] \notin {"lshift", "ralt"}
  /\ Texts \subseteq Seq(STRING)
  /\ Saved \in [Viewers -> BOOLEAN]

VARIABLES
  published,      \* the late sink has its HIDSink
  mods, pressed,  \* HIDSink.mods and .pressed
  size,           \* HIDSink.fbW
  flight,         \* per viewer: the report its reader has built and not written
  paste,          \* per paste goroutine: what is left to type and where it is
  started,        \* pastes started
  over,           \* the session is over: its context is cancelled, or Run failed
  host,           \* what the host's keyboard holds: the last report
  enabled,        \* keyboard.js: pass-through is on
  held,           \* noVNC's list of keys that are down
  acts,           \* counter for the bound
  stale,          \* history: usages and modifiers whose release can no longer come
  raced,          \* history: the last key report was built while another was in flight
  byKey,          \* history: the last keyboard report written was KeyEvent's
  text, typed,    \* history: the last clipboard; the presses the host saw since then
  mixed           \* history: something but that paste has touched the keyboard since

sinkVars == <<published, mods, pressed, size>>
pasteVars == <<paste, started, text, mixed>>
hostVars == <<host, typed, byKey>>
pageVars == <<enabled, held, acts>>
histVars == <<stale, raced>>
vars == <<sinkVars, flight, pasteVars, over, hostVars, pageVars, histVars>>

\* The tables of usbhid.go and the runes that need Shift, for the keysyms of the instances.
usbUsage == [a |-> "u04", A |-> "u04", b |-> "u05", B |-> "u05", q |-> "u14"]
modifierKeysym == [Shift_L |-> "lshift", Alt_R |-> "ralt", ISO_Level3_Shift |-> "ralt"]
modBitForUsage == [uE1 |-> "lshift", uE6 |-> "ralt"]
shifted == {"A", "B"}

Keyboard(m, k) == [dev |-> "keyboard", mods |-> m, keys |-> k, x |-> 0, w |-> 1, pos |-> 0]
Mouse(px, w, pos) == [dev |-> "mouse", mods |-> {}, keys |-> {}, x |-> px, w |-> w, pos |-> pos]
Released == [mods |-> {}, keys |-> {}]

Pastes == 1..MaxPastes
NoPaste == [todo |-> <<>>, at |-> "off"]

Init ==
  /\ published = FALSE /\ mods = {} /\ pressed = <<>>
  /\ size = DefaultSize
  /\ flight = [v \in Viewers |-> <<>>]
  /\ paste = [n \in Pastes |-> NoPaste] /\ started = 0
  /\ over = FALSE
  /\ host = Released
  /\ enabled = Saved /\ held = [v \in Viewers |-> {}]
  /\ acts = 0
  /\ stale = {} /\ raced = FALSE /\ byKey = TRUE
  /\ text = <<>> /\ typed = <<>> /\ mixed = FALSE

\* The bound on what happens; after the session nothing is added, only finished.
Act == ~over /\ acts < MaxActs /\ acts' = acts + 1

\* connectBMC hands the HIDSink to the late sink.
Publish ==
  /\ ~published
  /\ published' = TRUE
  /\ UNCHANGED <<mods, pressed, size, flight, pasteVars, over, hostVars, pageVars, histVars>>

-----------------------------------------------------------------------------
(* KeyEvent.                                                               *)

\* The patched sendKey: the key's usage in place of its keysym, except for modifiers.
SendKey(v, p) ==
  IF enabled[v] /\ p \in DOMAIN Usages
  THEN [raw |-> TRUE, sym |-> Usages[p]]
  ELSE [raw |-> FALSE, sym |-> Layout[p]]

\* The modifier bit and the usage a keysym stands for: at most one of them.
ModBit(ks) ==
  LET table == IF ks.raw THEN modBitForUsage ELSE modifierKeysym
  IN  IF ks.sym \in DOMAIN table THEN {table[ks.sym]} ELSE {}
Usage(ks) ==
  IF ModBit(ks) # {} THEN {}
  ELSE IF ks.raw THEN {ks.sym}
  ELSE {usbUsage[s] : s \in {ks.sym} \cap DOMAIN usbUsage}
Means(ks) == ModBit(ks) \cup Usage(ks)

\* Mutant: no look for the key in the slots.
AddKeyAgain(s, u) == IF Len(s) < Slots THEN Append(s, u) ELSE s

AddKey(s, u) == IF u \in ToSet(s) \/ Len(s) >= Slots THEN s ELSE Append(s, u)

RemoveKey(s, u) == IF u \in ToSet(s) THEN RemoveAt(s, CHOOSE i \in 1..Len(s) : s[i] = u) ELSE s

\* The slots after the event; a modifier takes none.
Slotted(ks, down) ==
  IF Usage(ks) = {} THEN pressed
  ELSE LET u == CHOOSE x \in Usage(ks) : TRUE
       IN  IF down THEN AddKey(pressed, u) ELSE RemoveKey(pressed, u)

KeyboardInFlight(v) == flight[v] # <<>> /\ Head(flight[v]).dev = "keyboard"

\* Mutants: the report is built before the state changes; a release is not reported.
KeyEventStale(v, ks, down) ==
  IF published /\ Means(ks) # {}
  THEN /\ mods' = IF down THEN mods \cup ModBit(ks) ELSE mods \ ModBit(ks)
       /\ pressed' = Slotted(ks, down)
       /\ flight' = [flight EXCEPT ![v] = <<Keyboard(mods, ToSet(pressed))>>]
       /\ raced' = \E o \in Viewers \ {v} : KeyboardInFlight(o)
  ELSE UNCHANGED <<mods, pressed, flight, raced>>
KeyEventSilentRelease(v, ks, down) ==
  IF published /\ Means(ks) # {}
  THEN /\ mods' = IF down THEN mods \cup ModBit(ks) ELSE mods \ ModBit(ks)
       /\ pressed' = Slotted(ks, down)
       /\ flight' = [flight EXCEPT ![v] = IF down THEN <<Keyboard(mods', ToSet(pressed'))>>
                                                  ELSE <<>>]
       /\ raced' = \E o \in Viewers \ {v} : KeyboardInFlight(o)
  ELSE UNCHANGED <<mods, pressed, flight, raced>>

\* KeyEvent up to the unlock; before the sink is published, and for a key neither table
\* knows, nothing happens.
KeyEvent(v, ks, down) ==
  IF published /\ Means(ks) # {}
  THEN /\ mods' = IF down THEN mods \cup ModBit(ks) ELSE mods \ ModBit(ks)
       /\ pressed' = Slotted(ks, down)
       /\ flight' = [flight EXCEPT ![v] = <<Keyboard(mods', ToSet(pressed'))>>]
       /\ raced' = \E o \in Viewers \ {v} : KeyboardInFlight(o)
  ELSE UNCHANGED <<mods, pressed, flight, raced>>

KeyDown(v, p) ==
  /\ flight[v] = <<>>
  /\ Act
  /\ held' = [held EXCEPT ![v] = @ \cup {p}]
  /\ KeyEvent(v, SendKey(v, p), TRUE)
  /\ UNCHANGED <<published, size, pasteVars, over, hostVars, enabled, stale>>

KeyUp(v, p) ==
  /\ flight[v] = <<>>
  /\ p \in held[v]
  /\ held' = [held EXCEPT ![v] = @ \ {p}]
  /\ KeyEvent(v, SendKey(v, p), FALSE)
  /\ stale' = stale \ Means(SendKey(v, p))
  /\ UNCHANGED <<published, size, pasteVars, over, hostVars, enabled, acts>>

-----------------------------------------------------------------------------
(* PointerEvent and SetFrameSize.                                          *)

\* Mutant: the division rounds down.
ScaleTruncating(px, w) == ((IF px > w THEN w ELSE px) * AbsMax) \div w

\* scaleAbs: clamp, scale, round to the nearest.
ScaleAbs(px, w) == ((IF px > w THEN w ELSE px) * AbsMax + (w \div 2)) \div w

\* The viewer's pixel is one of the screen it shows, which may be older than the sink's.
PointerEvent(v, px) ==
  /\ flight[v] = <<>>
  /\ published
  /\ Act
  /\ flight' = [flight EXCEPT ![v] = <<Mouse(px, size, ScaleAbs(px, size))>>]
  /\ UNCHANGED <<sinkVars, pasteVars, over, hostVars, enabled, held, histVars>>

\* OnFrame of a frame with another width.
SetFrameSize(w) ==
  /\ published
  /\ w # size
  /\ Act
  /\ size' = w
  /\ UNCHANGED <<published, mods, pressed, flight, pasteVars, over, hostVars, enabled, held,
                 histVars>>

-----------------------------------------------------------------------------
(* Writing reports.                                                        *)

\* The presses the host sees when its keyboard goes from one report to the next.
Presses(old, new) ==
  [i \in 1..Cardinality(new.keys \ old.keys) |->
     [key |-> SetToSeq(new.keys \ old.keys)[i], shift |-> "lshift" \in new.mods]]

HostGets(r) ==
  IF r.dev = "keyboard"
  THEN /\ host' = [mods |-> r.mods, keys |-> r.keys]
       /\ typed' = IF started = 0 \/ mixed' THEN <<>> ELSE typed \o Presses(host, r)
  ELSE UNCHANGED <<host, typed>>

\* SendHIDReport under wmu.  Once the session ends, the socket is closed and a write is lost.
Write(r) == HostGets(r) \/ (over /\ UNCHANGED <<host, typed>>)

SendReport(v) ==
  /\ flight[v] # <<>>
  /\ mixed' = (started > 0 /\ (mixed \/ KeyboardInFlight(v)))
  /\ Write(Head(flight[v]))
  /\ flight' = [flight EXCEPT ![v] = <<>>]
  /\ byKey' = (byKey \/ KeyboardInFlight(v))
  /\ UNCHANGED <<sinkVars, paste, started, text, over, pageVars, histVars>>

-----------------------------------------------------------------------------
(* CutText: one goroutine per clipboard.                                   *)

CutText(v, clip) ==
  /\ flight[v] = <<>>
  /\ published
  /\ clip # <<>>
  /\ started < MaxPastes
  /\ started' = started + 1
  /\ paste' = [paste EXCEPT ![started + 1] = [todo |-> clip, at |-> "next"]]
  /\ text' = clip
  /\ typed' = <<>>
  /\ mixed' = (host # Released \/ \E n \in Pastes : paste[n].at # "off")
  /\ UNCHANGED <<sinkVars, flight, over, host, byKey, pageVars, histVars>>

\* asciiToUsage: runes the US table does not know are skipped.
AsciiToUsage(r) == IF r \in DOMAIN usbUsage THEN {usbUsage[r]} ELSE {}
Shift(r) == IF r \in shifted THEN {"lshift"} ELSE {}

\* The next rune: its key goes down, alone.
PasteDown(n) ==
  /\ paste[n].at \in {"next", "gap"}
  /\ paste[n].todo # <<>>
  /\ LET r == Head(paste[n].todo) IN
       IF AsciiToUsage(r) # {}
       THEN /\ UNCHANGED mixed
            /\ Write(Keyboard(Shift(r), AsciiToUsage(r)))
            /\ paste' = [paste EXCEPT ![n].at = "hold"]
            /\ byKey' = FALSE
       ELSE /\ paste' = [paste EXCEPT ![n].todo = Tail(@), ![n].at = "next"]
            /\ UNCHANGED <<mixed, hostVars>>
  /\ UNCHANGED <<sinkVars, flight, started, text, over, pageVars, histVars>>

\* Mutant: no release between two keys.
PasteUpSkipped(n) ==
  /\ paste[n].at = "hold"
  /\ paste' = [paste EXCEPT ![n].todo = Tail(@), ![n].at = "gap"]
  /\ UNCHANGED <<sinkVars, flight, started, text, mixed, over, hostVars, pageVars, histVars>>

\* After pasteDelay, the report that releases everything.
PasteUp(n) ==
  /\ paste[n].at = "hold"
  /\ UNCHANGED mixed
  /\ Write(Keyboard({}, {}))
  /\ byKey' = FALSE
  /\ paste' = [paste EXCEPT ![n].todo = Tail(@), ![n].at = "gap"]
  /\ UNCHANGED <<sinkVars, flight, started, text, over, pageVars, histVars>>

\* The text is typed, ...
PasteEnd(n) ==
  /\ paste[n].at \in {"next", "gap"}
  /\ paste[n].todo = <<>>
  /\ paste' = [paste EXCEPT ![n].at = "off"]
  /\ UNCHANGED <<started, text, mixed, sinkVars, flight, over, hostVars, pageVars, histVars>>

\* ... or pasteDelay finds the session over, with a key down perhaps.
PasteCancelled(n) ==
  /\ paste[n].at \in {"hold", "gap"}
  /\ over
  /\ paste' = [paste EXCEPT ![n].at = "off"]
  /\ UNCHANGED <<started, text, mixed, sinkVars, flight, over, hostVars, pageVars, histVars>>

-----------------------------------------------------------------------------
(* The pages and the session.                                              *)

Down(v) == UNION {Means(SendKey(v, p)) : p \in held[v]}

\* The checkbox of the keyboard panel: the release of a key that is down will be sent as
\* another keysym than its press.
Toggle(v) ==
  /\ Act
  /\ enabled' = [enabled EXCEPT ![v] = ~@]
  /\ UNCHANGED <<sinkVars, flight, pasteVars, over, hostVars, held, raced>>
  /\ stale' = stale \cup ((Down(v) \ Down(v)') \cap (mods \cup ToSet(pressed)))

\* The page is closed or reloaded with keys down: nobody sends their release.
Leave(v) ==
  /\ held[v] # {}
  /\ held' = [held EXCEPT ![v] = {}]
  /\ stale' = stale \cup (Down(v) \cap (mods \cup ToSet(pressed)))
  /\ UNCHANGED <<sinkVars, flight, pasteVars, over, hostVars, enabled, acts, raced>>

SessionEnds ==
  /\ published
  /\ ~over
  /\ over' = TRUE
  /\ UNCHANGED <<sinkVars, flight, pasteVars, hostVars, pageVars, histVars>>

-----------------------------------------------------------------------------
PasteStep(n) == PasteDown(n) \/ PasteUp(n) \/ PasteEnd(n) \/ PasteCancelled(n)

Pixels == UNION {0..(w - 1) : w \in Sizes}

Next ==
  \/ Publish
  \/ \E v \in Viewers :
       \/ \E p \in Phys : KeyDown(v, p) \/ KeyUp(v, p)
       \/ \E px \in Pixels : PointerEvent(v, px)
       \/ \E clip \in Texts : CutText(v, clip)
       \/ SendReport(v)
       \/ Toggle(v)
       \/ Leave(v)
  \/ \E w \in Sizes : SetFrameSize(w)
  \/ \E n \in Pastes : PasteStep(n)
  \/ SessionEnds

Spec == Init /\ [][Next]_vars

\* Goroutines run and writes return.  Users, frames and the end of the session are free.
Fairness ==
  /\ \A v \in Viewers : WF_vars(SendReport(v))
  /\ \A n \in Pastes : WF_vars(PasteStep(n))

FairSpec == Spec /\ Fairness

-----------------------------------------------------------------------------
(* Properties.                                                             *)

\* No stuck key: what HIDSink reports as held is held by some viewer, through repeats, full
\* slots, two keysyms for one key and presses before the sink was there, unless the page
\* went away or changed its keyboard mode with the key down.
NoStuckKey ==
  mods \cup ToSet(pressed) \subseteq stale \cup UNION {Down(v) : v \in Viewers}

\* Reports are built under mu and written after it, yet once KeyEvent's last report is
\* written the host's keyboard is in the sink's state: unless two readers' reports crossed.
HostInSync ==
  byKey /\ ~raced /\ ~over /\ (\A v \in Viewers : ~KeyboardInFlight(v)) =>
    host = [mods |-> mods, keys |-> ToSet(pressed)]

\* The places of the runes the table knows among the first k of the clipboard, ...
Mapped(k) == {i \in 1..k : AsciiToUsage(text[i]) # {}}

\* ... and what the host has seen once these are typed.
TypedUpTo(k) ==
  /\ Len(typed) = Cardinality(Mapped(k))
  /\ \A i \in Mapped(k) : typed[Cardinality(Mapped(i))] =
                             [key |-> usbUsage[text[i]], shift |-> text[i] \in shifted]

\* A paste nothing else interferes with types its text: every mapped rune is a press of its
\* own, in order, with Shift where it needs it, repeated letters included, and in the end
\* everything is released.
PasteExact ==
  started > 0 /\ ~mixed /\ ~over =>
    /\ \E k \in 0..Len(text) : TypedUpTo(k)
    /\ paste[started].at = "off" => TypedUpTo(Len(text)) /\ host = Released

AllUp == stale = {} /\ ~raced /\ \A v \in Viewers : held[v] = {}

\* Once every key is released the host's keyboard comes to rest with nothing pressed,
\* whatever was pasted or dropped meanwhile.
KeysComeUp == AllUp ~> (host = Released \/ ~AllUp \/ over)

\* An absolute position reported is on the grid and the point of it nearest to the pixel
\* asked for, at the width it was scaled with, beyond the screen's edge included.
PointerOnTarget ==
  \A v \in Viewers : flight[v] # <<>> /\ ~KeyboardInFlight(v) =>
    LET m == Head(flight[v])
        px == IF m.x > m.w THEN m.w ELSE m.x
        off == m.pos * m.w - px * AbsMax
    IN  m.pos \in 0..AbsMax /\ 2 * off <= m.w /\ -2 * off <= m.w

=============================================================================
