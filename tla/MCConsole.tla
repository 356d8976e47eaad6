----------------------------- MODULE MCConsole -----------------------------
(* Instances of Console for TLC: three texts, two terminals and a device   *)
(* of another class.                                                       *)
EXTENDS Console

CONSTANTS a, b, tty0, tty1, disk

MCChar == {a, b}
MCMessage == {<<a>>, <<b, a>>, <<a, b, b>>}
MCDevice == {tty0, tty1, disk}
MCTty == {tty0, tty1}

=============================================================================
