----------------------------- MODULE MCClient ------------------------------
(* Instance of Client: command lines of one to four arguments over two files. *)
EXTENDS Client

Opt(opt, files, val) == [opt |-> opt, ok |-> TRUE, files |-> files, val |-> val]
Bad(opt) == [opt |-> opt, ok |-> FALSE, files |-> << >>, val |-> 0]

Log == Opt("p", << >>, 0)
Both(opt) == Opt(opt, <<"a", "b">>, 0)
One(opt) == Opt(opt, <<"a">>, 0)
Bare(opt) == Opt(opt, << >>, 0)
Append2 == Opt("a", <<"local", "a">>, 0)
Append3 == Opt("a", <<"local", "a", "dir">>, 0)
Dir(limit) == Opt("w", <<"a", "b">>, limit)

\* What one option does, and two after each other on the same file.
Requests == {<<Both("W")>>, <<One("W"), Bare("D")>>, <<Both("r")>>, <<One("r"), Bare("d")>>,
             <<Both("l"), One("u")>>, <<One("l"), One("r")>>, <<Both("u")>>, <<Both("c"), One("W")>>,
             <<Append2, One("c")>>, <<Append3>>, <<One("a"), Append2>>,
             <<Dir(0), Bare("D")>>, <<Dir(1), One("r")>>, <<Opt("w", << >>, 0), One("r")>>,
             <<Bare("R"), Opt("arg", << >>, 2), Bare("d")>>,
             <<Opt("t", << >>, 1), Opt("L", << >>, 5), One("l")>>}

\* Arguments that end the program, are refused, or go past the room there is.
Others == {<<One("W"), Bare("h")>>, <<One("W"), Bad("t")>>, <<One("l"), Opt("L", << >>, 6), One("u")>>,
           <<Bad("?")>>, <<Opt("arg", << >>, 2), Bare("f")>>, <<Bare("R"), Bad("arg")>>,
           <<One("W"), One("r"), One("l"), One("c")>>, <<One("l"), One("l"), One("u"), Bare("p")>>}

MCCommandLines == Requests \cup {<<Log>> \o r : r \in Requests} \cup Others
=============================================================================
