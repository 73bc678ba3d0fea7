------------------------------ MODULE HeadDriver ------------------------------
(***************************************************************************)
(* The driver of the head's microcontroller (head_driver.py).  Writes      *)
(* change the driver's fields and mark a packet dirty; flush() packs the   *)
(* dirty packets under the lock, and sends them and clears their flags     *)
(* outside it.  The controller's thread, the only one in the repository    *)
(* that flushes, does so at its own rate; any thread may write.            *)
(*                                                                         *)
(* A field's value is the number of the write it comes from.  The neck's   *)
(* motors are computed before the lock is taken.  A packet that the serial *)
(* device has accepted counts as delivered.                                *)
(***************************************************************************)
EXTENDS Naturals

CONSTANTS
  MaxWrites,  \* bound: writes in a behaviour
  MaxFaults   \* bound: transmissions and calls that fail

ASSUME DriverAssumption == MaxWrites \in Nat /\ MaxFaults \in Nat

VARIABLES
  open, initialized,  \* the serial port, and the driver's flag
  val,       \* val[f]: the field's value
  negative,  \* is an ear's value negative?
  dirty,     \* dirty[p]: _mp_dirty and _leds_dirty
  at,        \* where the thread that flushes is
  begun,     \* is this flush the one of begin()?
  neck,      \* the neck's value as computed at the start of the flush
  buf,       \* buf[p]: the packet buffer
  sent,      \* sent[p]: the packet sent last
  writes, faults,
  raced      \* raced[p]: did the last write to the packet come during a flush?

vars == <<open, initialized, val, negative, dirty, at, begun, neck, buf, sent, writes, faults,
          raced>>

Fields == {"neck", "face", "leds"}
Packets == {"motion", "leds"}
PacketOf(f) == IF f = "leds" THEN "leds" ELSE "motion"

(* What a packet should carry.                                              *)
Content(p, nk) == IF p = "leds" THEN <<val["leds"]>> ELSE <<nk, val["face"]>>
Current(p) == Content(p, val["neck"])

Init ==
  /\ open = FALSE /\ initialized = FALSE
  /\ val = [f \in Fields |-> 0] /\ negative = FALSE
  /\ dirty = [p \in Packets |-> FALSE]
  /\ at = "idle" /\ begun = FALSE /\ neck = 0
  /\ buf = [p \in Packets |-> Current(p)] /\ sent = buf
  /\ writes = 0 /\ faults = 0 /\ raced = [p \in Packets |-> FALSE]

Fault == faults < MaxFaults /\ faults' = faults + 1

-----------------------------------------------------------------------------
(* write(): under the lock, so between the steps of a flush, never within   *)
(* its packing.  The set_* helpers and lookat() are such writes, one after  *)
(* the other.                                                               *)
Write(f, neg) ==
  /\ writes < MaxWrites /\ writes' = writes + 1
  /\ neg => f = "face"
  /\ val' = [val EXCEPT ![f] = writes + 1]
  /\ negative' = IF f = "face" THEN neg ELSE negative
  /\ dirty' = [dirty EXCEPT ![PacketOf(f)] = TRUE]
  /\ raced' = [raced EXCEPT ![PacketOf(f)] = at # "idle"]
  /\ UNCHANGED <<open, initialized, at, begun, neck, buf, sent, faults>>

-----------------------------------------------------------------------------
(* begin() and deinit().                                                    *)

(* The port is opened, the peer's name asked for, the hardware initialised; *)
(* a failure on the way leaves the port open.                               *)
BeginFails ==
  /\ at = "idle" /\ ~initialized /\ Fault
  /\ open' \in {open, TRUE}
  /\ UNCHANGED <<initialized, val, negative, dirty, at, begun, neck, buf, sent, writes, raced>>

(* The initial state is flushed: with nothing dirty, this is a failure.     *)
Begin ==
  /\ at = "idle" /\ ~initialized
  /\ open' = TRUE
  /\ IF \E p \in Packets : dirty[p]
     THEN at' = "pack" /\ begun' = TRUE /\ neck' = val["neck"]
     ELSE UNCHANGED <<at, begun, neck>>
  /\ UNCHANGED <<initialized, val, negative, dirty, buf, sent, writes, faults, raced>>

(* A driver that is not initialised has nothing to do, its port open or not. *)
Deinit ==
  /\ at = "idle" /\ initialized
  /\ initialized' = FALSE /\ open' = FALSE
  /\ UNCHANGED <<val, negative, dirty, at, begun, neck, buf, sent, writes, faults, raced>>

-----------------------------------------------------------------------------
(* flush().                                                                 *)

FlushStart ==
  /\ at = "idle" /\ initialized /\ \E p \in Packets : dirty[p]
  /\ at' = "pack" /\ begun' = FALSE /\ neck' = val["neck"]
  /\ UNCHANGED <<open, initialized, val, negative, dirty, buf, sent, writes, faults, raced>>

(* The flush is over; begin() succeeds if it did.                           *)
Finish(ok) == at' = "idle" /\ initialized' = (initialized \/ (begun /\ ok))

(* The ears are packed as unsigned bytes: a negative one raises struct.error *)
(* before anything is sent, the LEDs included.                              *)
Pack ==
  /\ at = "pack"
  /\ IF dirty["motion"] /\ negative
     THEN Finish(FALSE) /\ UNCHANGED buf
     ELSE /\ buf' = [p \in Packets |-> IF dirty[p] THEN Content(p, neck) ELSE buf[p]]
          /\ at' = "motion" /\ UNCHANGED initialized
  /\ UNCHANGED <<open, val, negative, dirty, begun, neck, sent, writes, faults, raced>>

(* The flag is looked at again, then the buffer is sent.  If that fails the *)
(* flag stays, and the next flush tries again.  An exception ends the flush *)
(* at once, the LEDs left for the next one.                                 *)
(* Seeded fault: the LEDs are sent only along with the motion packet.       *)
Due_Together(p) == dirty["motion"] /\ dirty[p]
Due(p) == dirty[p]

After(p) == IF p = "motion" THEN "leds" ELSE "end"

Send(p) ==
  /\ at = p
  /\ IF ~Due(p) THEN at' = After(p) /\ UNCHANGED <<sent, faults>>
     ELSE \/ /\ open /\ sent' = [sent EXCEPT ![p] = buf[p]]
             /\ at' = IF p = "motion" THEN "clear motion" ELSE "clear leds"
             /\ UNCHANGED faults
          \/ /\ Fault /\ UNCHANGED sent
             /\ at' \in IF p = "motion" THEN {"failed", "failed end"} ELSE {"failed end"}
  /\ UNCHANGED <<open, initialized, val, negative, dirty, begun, neck, buf, writes, raced>>

Clear(p) ==
  /\ at = IF p = "motion" THEN "clear motion" ELSE "clear leds"
  /\ dirty' = [dirty EXCEPT ![p] = FALSE]
  /\ at' = After(p)
  /\ UNCHANGED <<open, initialized, val, negative, begun, neck, buf, sent, writes, faults, raced>>

(* The motion packet failed: the LEDs are tried, but the flush has failed.  *)
(* Seeded fault: a packet that could not be sent is forgotten.              *)
Keep_Forget(p) == [dirty EXCEPT ![p] = FALSE]
Keep(p) == dirty

AfterFailure ==
  /\ at = "failed" /\ at' = "leds"
  /\ begun' = FALSE
  /\ dirty' = Keep("motion")
  /\ UNCHANGED <<open, initialized, val, negative, neck, buf, sent, writes, faults, raced>>

FlushEnds ==
  /\ at \in {"end", "failed end"}
  /\ Finish(at = "end")
  /\ dirty' = IF at = "end" THEN dirty ELSE Keep("leds")
  /\ UNCHANGED <<open, val, negative, begun, neck, buf, sent, writes, faults, raced>>

Flush == \/ FlushStart \/ Pack \/ AfterFailure \/ FlushEnds
         \/ \E p \in Packets : Send(p) \/ Clear(p)
Next ==
  \/ Flush \/ Begin \/ BeginFails \/ Deinit
  \/ \E f \in Fields, neg \in BOOLEAN : Write(f, neg)

(* The controller's loop calls flush() again and again.                     *)
Spec == Init /\ [][Next]_vars /\ WF_vars(Flush)

-----------------------------------------------------------------------------
(* Properties.                                                              *)

(* Nothing written is lost: a packet that is not dirty was sent with the    *)
(* values its fields have now, whatever transmissions failed, were retried, *)
(* or were interrupted by a packing error.  (Unless its last write came     *)
(* from another thread during a flush: that one may be cleared unsent.)     *)
NothingLost ==
  \A p \in Packets : at = "idle" /\ ~dirty[p] /\ ~raced[p] => sent[p] = Current(p)

(* A driver that stays initialised, its ears not negative, gets everything  *)
(* across, however the flushes failed before: in the end no packet is dirty *)
(* and each was sent with the values its fields have, except one whose last *)
(* write came during a flush (README.md, findings).                         *)
Converges ==
  <>[](initialized /\ ~negative) =>
    <>[](\A p \in Packets : ~dirty[p] /\ (raced[p] \/ sent[p] = Current(p)))
=============================================================================
