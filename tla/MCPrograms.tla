----------------------------- MODULE MCPrograms -----------------------------
(* The programs with every command line of at most MaxWords words, and     *)
(* requests with and without the scheme and the CR LF.                     *)
EXTENDS Programs

MCByte == {"g", "/", "h", "i", "5", "9", "cr", "lf", "nul"}
MCScheme == <<"g", "/">>
MCIndex == <<"i">>
MCStatus == <<"5", "9">>

Middles == UNION {[1..n -> {"h", "/", "cr", "nul"}] : n \in 0..4}
MCRequests ==
  {r \in {s \o m \o e : s \in {<<>>, MCScheme, <<"g">>}, m \in Middles,
                        e \in {<<>>, <<"cr", "lf">>, <<"lf">>, <<"cr">>}} :
     Len(r) <= MAX_BUFFER}

MCWords == {<<"-", "h">>, <<"-", "-", "help">>, <<"-", "V">>,
            <<"-", "-", "version">>, <<"-", "p">>, <<"-", "-", "port">>, <<"-">>,
            <<"x", "h">>, <<"d">>, <<>>}
=============================================================================
