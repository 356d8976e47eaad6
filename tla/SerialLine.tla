----------------------------- MODULE SerialLine -----------------------------
(***************************************************************************)
(* What a serial console output promises its caller, whatever the UART:    *)
(* every byte accepted goes out on the wire once, in the order accepted,   *)
(* and none stays behind.                                                  *)
(***************************************************************************)
EXTENDS Integers, Sequences

CONSTANTS
  Strings,   (* the byte strings a call may put on the line                *)
  Leftovers, (* what may be on its way when the kernel starts              *)
  MaxBytes   (* bound: bytes accepted in one behaviour                     *)

VARIABLES
  accepted,  (* the bytes handed to the line so far                        *)
  wire       (* the bytes that have left                                   *)

Init == accepted \in Leftovers /\ wire = <<>>

Accept(s) ==
  /\ Len(accepted) + Len(s) <= MaxBytes
  /\ accepted' = accepted \o s
  /\ UNCHANGED wire

Emit ==
  /\ Len(wire) < Len(accepted)
  /\ wire' = Append(wire, accepted[Len(wire) + 1])
  /\ UNCHANGED accepted

Next == (\E s \in Strings : Accept(s)) \/ Emit

Spec == Init /\ [][Next]_<<accepted, wire>> /\ WF_<<accepted, wire>>(Emit)
=============================================================================
