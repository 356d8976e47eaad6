------------------------------ MODULE MCPrintk ------------------------------
(* Instances of Printk for TLC: int of 8 bits and uintptr_t of 8 or 16,    *)
(* for which five places are exactly enough, as twenty are for 64 bits;    *)
(* formats with every conversion, alone and in a row, an unknown one, and  *)
(* one that ends in a lone %; numbers at the ends of their ranges.         *)
EXTENDS Printk

MCLetter == {"M", "y", "(", "n", "u", "l", ")", "-", "x", "%", "k",
             "i", "o", "p", "s"}
MCBeyond == <<"y", NUL>>
MCPtrWidths == {8, 16}

One(k, x) == [fmt |-> <<"%", k>>, args |-> <<x>>]
MCCalls ==
  {One(k, n) : k \in {"d", "u", "x", "o"}, n \in {0, 9, 10, 127, -1, -128}}
    \cup {One("p", n) : n \in {0, 255, 65535}}
    \cup {One("s", s) : s \in {NULL, <<>>, <<"M", "y">>}}
    \cup {[fmt |-> <<>>, args |-> <<>>],
          [fmt |-> <<"M", "%">>, args |-> <<>>],
          [fmt |-> <<"%", "%", "%", "k">>, args |-> <<>>],
          [fmt |-> <<"%", "i", "%", "a", "M">>, args |-> <<-128, 4096>>],
          [fmt |-> <<"%", "c", "%", "s", "%", "x">>,
           args |-> <<"y", <<"M">>, 16>>]}
=============================================================================
