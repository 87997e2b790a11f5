------------------------------ MODULE Keyboard ------------------------------
(***************************************************************************)
(* From the keys to the characters: the keyboard sends one interrupt per   *)
(* scancode byte, push_event queues it or drops it, and get_next_key,      *)
(* called by a read of the console whenever the program likes, decodes one *)
(* byte per call.  The ring is replaced by the queue it implements (module *)
(* KeyboardBuffer).  get_next_key runs inside a system call, with          *)
(* interrupts off, in one step.                                            *)
(*                                                                         *)
(* A character is abstracted to its key and to the column of the table     *)
(* keyboard_german it is taken from: 0 plain, 1 shifted, 2 AltGr, 3        *)
(* escaped.                                                                *)
(***************************************************************************)
EXTENDS Integers, Sequences

CONSTANTS Key,        \* the keys that are used
          Capacity,   \* scancodes the buffer can hold (BUFFER_SIZE - 1)
          MaxStrokes  \* bound: presses and releases

AllKeys == {"lshift", "rshift", "lctrl", "rctrl", "alt", "altgr", "caps",
            "letter", "arrow"}

ASSUME KeyAssumption == Key \subseteq AllKeys
ASSUME CapacityAssumption == Capacity \in Nat /\ MaxStrokes \in Nat

VARIABLES held,     \* the keys that are down
          strokes,  \* presses and releases so far
          wire,     \* bytes the keyboard has not yet delivered
          queue,    \* the buffered bytes
          left_shift_state, right_shift_state, caps_lock_state,
          caps_lock_ignore_one, left_ctrl_state, alt_state, alt_gr_state,
          escaped,
          caps_on,  \* history: caps lock was pressed an odd number of times
          missed,   \* history: keys whose last stroke lost a byte
          lost,     \* history: some byte was dropped
          last,     \* history: what get_next_key got before, see Lasts
          astray,   \* history: an Alt key's code took a wrong escape, or none
          out       \* what the last call decoded

hwVars == <<held, strokes, wire>>
shiftVars == <<left_shift_state, right_shift_state, caps_lock_state,
               caps_lock_ignore_one, left_ctrl_state>>
altVars == <<alt_state, alt_gr_state, escaped>>
histVars == <<caps_on, missed, lost, last, astray>>
keyVars == <<hwVars, queue, shiftVars, altVars, histVars, out>>

Scancode == {"LEFT_SHIFT_PRESSED", "LEFT_SHIFT_RELEASED",
             "RIGHT_SHIFT_PRESSED", "RIGHT_SHIFT_RELEASED",
             "LEFT_CTRL_PRESSED", "LEFT_CTRL_RELEASED",
             "ALT_PRESSED", "ALT_RELEASED",
             "CAPS_LOCK_PART1", "CAPS_LOCK_PART2", "ESCAPE", "MAKE", "BREAK"}

(* A byte, the key it comes from, whether it follows an escape, and the    *)
(* column its key stood for when it was pressed.                           *)
Byte == [code : Scancode, key : AllKeys, follower : BOOLEAN, typed : 0..3]

(* "escape": the escape itself; "released": an escaped key's release, and  *)
(* since then only codes that leave the escape alone; "polled": an escape, *)
(* and since then only calls on an empty buffer.                           *)
Lasts == {"escape", "released", "polled", "other"}

NoKey == [key |-> "none", column |-> 0, typed |-> 0, last |-> "other"]

KeyTypeOK ==
  /\ held \subseteq Key
  /\ strokes \in 0..MaxStrokes
  /\ wire \in Seq(Byte)
  /\ queue \in Seq(Byte) /\ Len(queue) <= Capacity
  /\ \A b \in {left_shift_state, right_shift_state, caps_lock_state,
               caps_lock_ignore_one, left_ctrl_state, alt_state, alt_gr_state,
               escaped, caps_on, lost, astray} : b \in BOOLEAN
  /\ missed \subseteq Key
  /\ last \in Lasts
  /\ out \in {NoKey} \cup [key : AllKeys, column : 0..3, typed : 0..3, last : Lasts]

KeyInit ==
  /\ held = {} /\ strokes = 0 /\ wire = << >> /\ queue = << >>
  /\ left_shift_state = FALSE /\ right_shift_state = FALSE
  /\ caps_lock_state = FALSE /\ caps_lock_ignore_one = FALSE
  /\ left_ctrl_state = FALSE
  /\ alt_state = FALSE /\ alt_gr_state = FALSE /\ escaped = FALSE
  /\ caps_on = FALSE /\ missed = {} /\ lost = FALSE
  /\ last = "other" /\ astray = FALSE
  /\ out = NoKey
-----------------------------------------------------------------------------
(* The scancodes of a key, as keyboard.h describes them: every press and   *)
(* every release of caps lock sends both its parts; right control, AltGr   *)
(* and the arrow keys are escaped.                                         *)
BaseCode(k, down) ==
  CASE k = "lshift" -> IF down THEN "LEFT_SHIFT_PRESSED" ELSE "LEFT_SHIFT_RELEASED"
    [] k = "rshift" -> IF down THEN "RIGHT_SHIFT_PRESSED" ELSE "RIGHT_SHIFT_RELEASED"
    [] k \in {"lctrl", "rctrl"} -> IF down THEN "LEFT_CTRL_PRESSED" ELSE "LEFT_CTRL_RELEASED"
    [] k \in {"alt", "altgr"} -> IF down THEN "ALT_PRESSED" ELSE "ALT_RELEASED"
    [] OTHER -> IF down THEN "MAKE" ELSE "BREAK"

Codes(k, down) ==
  CASE k = "caps" -> <<"CAPS_LOCK_PART1", "CAPS_LOCK_PART2">>
    [] k \in {"rctrl", "altgr", "arrow"} -> <<"ESCAPE", BaseCode(k, down)>>
    [] OTHER -> <<BaseCode(k, down)>>

(* The column the user means.                                              *)
ColumnTyped(k) ==
  CASE k = "arrow" -> 3
    [] k # "arrow" /\ "altgr" \in held -> 2
    [] OTHER -> IF {"lshift", "rshift"} \cap held # {} \/ caps_on THEN 1 ELSE 0

Bytes(k, down) ==
  LET codes == Codes(k, down)
  IN  [i \in 1..Len(codes) |->
         [code |-> codes[i], key |-> k, typed |-> ColumnTyped(k),
          follower |-> i > 1 /\ codes[1] = "ESCAPE"]]

(* A key goes down or up; the keyboard sends the bytes of one stroke       *)
(* before those of the next.                                               *)
stroke(k) ==
  LET down == k \notin held IN
  /\ strokes < MaxStrokes
  /\ strokes' = strokes + 1
  /\ wire = << >>
  /\ held' = IF down THEN held \cup {k} ELSE held \ {k}
  /\ wire' = Bytes(k, down)
  /\ caps_on' = IF k = "caps" /\ down THEN ~caps_on ELSE caps_on
  /\ missed' = missed \ {k}
  /\ UNCHANGED <<queue, shiftVars, altVars, lost, last, astray, out>>

(* The keyboard interrupt: push_event stores the byte unless the buffer is *)
(* full.                                                                   *)
handle_interrupt ==
  /\ wire # << >>
  /\ wire' = Tail(wire)
  /\ \/ /\ Len(queue) < Capacity
        /\ queue' = Append(queue, Head(wire))
        /\ UNCHANGED <<missed, lost>>
     \/ /\ Len(queue) >= Capacity
        /\ missed' = missed \cup {Head(wire).key}
        /\ lost' = TRUE
        /\ UNCHANGED queue
  /\ UNCHANGED <<held, strokes, shiftVars, altVars, caps_on, last, astray, out>>
-----------------------------------------------------------------------------
(* Faulty variant: the codes of the shift keys toggle their states.        *)
DecodeShift_toggles(code) ==
  /\ left_shift_state' = IF code \in {"LEFT_SHIFT_PRESSED", "LEFT_SHIFT_RELEASED"}
                           THEN ~left_shift_state ELSE left_shift_state
  /\ right_shift_state' = IF code \in {"RIGHT_SHIFT_PRESSED", "RIGHT_SHIFT_RELEASED"}
                            THEN ~right_shift_state ELSE right_shift_state
  /\ UNCHANGED left_ctrl_state

(* The cases of the switch in get_next_key that set a modifier from the    *)
(* scancode alone.                                                         *)
DecodeShift(code) ==
  /\ left_shift_state' = CASE code = "LEFT_SHIFT_PRESSED" -> TRUE
                           [] code = "LEFT_SHIFT_RELEASED" -> FALSE
                           [] OTHER -> left_shift_state
  /\ right_shift_state' = CASE code = "RIGHT_SHIFT_PRESSED" -> TRUE
                            [] code = "RIGHT_SHIFT_RELEASED" -> FALSE
                            [] OTHER -> right_shift_state
  /\ left_ctrl_state' = CASE code = "LEFT_CTRL_PRESSED" -> TRUE
                          [] code = "LEFT_CTRL_RELEASED" -> FALSE
                          [] OTHER -> left_ctrl_state

(* Faulty variant: the second first part is not ignored.                   *)
DecodeCaps_every_time(code) ==
  /\ caps_lock_state' = IF code = "CAPS_LOCK_PART1" THEN ~caps_lock_state
                                                    ELSE caps_lock_state
  /\ UNCHANGED caps_lock_ignore_one

(* CAPS_LOCK_PART1 toggles the state every second time.                    *)
DecodeCaps(code) ==
  IF code = "CAPS_LOCK_PART1"
    THEN /\ caps_lock_state' = IF caps_lock_ignore_one
                                 THEN caps_lock_state ELSE ~caps_lock_state
         /\ caps_lock_ignore_one' = ~caps_lock_ignore_one
    ELSE UNCHANGED <<caps_lock_state, caps_lock_ignore_one>>

(* Alt is AltGr when it is escaped.                                        *)
DecodeAlt(code) ==
  LET alt == code \in {"ALT_PRESSED", "ALT_RELEASED"} IN
  /\ alt_gr_state' = IF alt /\ escaped THEN code = "ALT_PRESSED" ELSE alt_gr_state
  /\ alt_state' = IF alt /\ ~escaped THEN code = "ALT_PRESSED" ELSE alt_state

(* Every case takes the escape back except the second part of caps lock    *)
(* and, in the default case, a code with the break bit.  The scancode 0 of *)
(* an empty buffer has no break bit.                                       *)
DecodeEscape(code) ==
  escaped' = CASE code = "ESCAPE" -> TRUE
               [] code \in {"CAPS_LOCK_PART2", "BREAK"} -> escaped
               [] OTHER -> FALSE

(* Faulty variant: shift is asked for before AltGr.                        *)
Column_shift_first ==
  CASE escaped -> 3
    [] ~escaped /\ (left_shift_state \/ right_shift_state \/ caps_lock_state) -> 1
    [] OTHER -> IF alt_gr_state THEN 2 ELSE 0

(* The column of keyboard_german that the default case reads.              *)
Column ==
  CASE escaped -> 3
    [] ~escaped /\ alt_gr_state -> 2
    [] OTHER -> IF left_shift_state \/ right_shift_state \/ caps_lock_state
                  THEN 1 ELSE 0

(* What is remembered of the bytes; of an Alt code, whether the escape it  *)
(* finds, or does not find, is not its own.                                *)
Remember(code) ==
  /\ last' = CASE code = "ESCAPE" -> "escape"
               [] code \in {"CAPS_LOCK_PART2", "BREAK"} ->
                    IF last \in {"escape", "released"} THEN "released" ELSE "other"
               [] OTHER -> "other"
  /\ astray' = \/ astray
               \/ code \in {"ALT_PRESSED", "ALT_RELEASED"} /\ last \in {"released", "polled"}

(* get_next_key on a buffer that holds something.                          *)
get_next_key ==
  LET b == Head(queue) IN
  /\ queue # << >>
  /\ queue' = Tail(queue)
  /\ DecodeShift(b.code) /\ DecodeCaps(b.code)
  /\ DecodeAlt(b.code) /\ DecodeEscape(b.code)
  /\ out' = IF b.code = "MAKE"
              THEN [key |-> b.key, column |-> Column, typed |-> b.typed, last |-> last]
              ELSE NoKey
  /\ Remember(b.code)
  /\ UNCHANGED <<hwVars, caps_on, missed, lost>>

(* get_next_key on an empty buffer: the default case with scancode 0.      *)
get_next_key_empty ==
  /\ queue = << >>
  /\ DecodeEscape("NONE")
  /\ out' = NoKey
  /\ last' = IF last \in {"escape", "polled"} THEN "polled" ELSE "other"
  /\ UNCHANGED <<hwVars, queue, shiftVars, alt_state, alt_gr_state, caps_on,
                 missed, lost, astray>>

KeyNext ==
  \/ \E k \in Key : stroke(k)
  \/ handle_interrupt
  \/ get_next_key
  \/ get_next_key_empty

KeySpec == KeyInit /\ [][KeyNext]_keyVars
-----------------------------------------------------------------------------
Drained == wire = << >> /\ queue = << >>

(* Once everything is read, the shift states are those of the keys, for    *)
(* each shift key whose last press or release was buffered: whatever was   *)
(* dropped before, however the reader polled and whatever escapes were     *)
(* pending.                                                                *)
ShiftFollowsKey ==
  Drained =>
    /\ "lshift" \in Key \ missed => (left_shift_state <=> "lshift" \in held)
    /\ "rshift" \in Key \ missed => (right_shift_state <=> "rshift" \in held)

(* Caps lock changes once per press although the keyboard sends its first  *)
(* code twice, and it never counts a press twice across escapes and polls; *)
(* a dropped byte is the only thing that can put it out of step.           *)
CapsFollowsPresses ==
  Drained /\ ~lost =>
    /\ caps_lock_state <=> caps_on
    /\ caps_lock_ignore_one <=> "caps" \in held

(* A character is decoded in the column the user meant when the key was    *)
(* pressed, however long its byte waited and whatever modifiers changed    *)
(* meanwhile, but for what get_next_key gets wrong about escapes: the      *)
(* release of an escaped key leaves the escape set, which takes the next   *)
(* character to the column of the escaped ones; a call on an empty buffer  *)
(* between an escape and its code forgets the escape; and once an Alt code *)
(* was in one of these two places, it may have set or left the wrong one   *)
(* of Alt and AltGr, so that the columns with and without AltGr are taken  *)
(* for each other.                                                         *)
DecodedAsTyped ==
  ~lost =>
    \/ out.column = out.typed
    \/ out.last = "released" /\ out.column = 3
    \/ out.last = "polled" /\ out.typed = 3
    \/ astray /\ 2 \in {out.column, out.typed}
=============================================================================
