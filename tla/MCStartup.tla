----------------------------- MODULE MCStartup -----------------------------
(* Instances of Startup for TLC: command lines of up to four options.      *)
EXTENDS Startup, TLC

CONSTANT WORDS   \* the words after -p and -w

Options ==
  ({"s", "c", "h", "?"} \X {NULL}) \cup ({"p", "w"} \X WORDS)
    \cup {<<"a", "host">>, <<"a", "">>, <<"i", "file">>, <<"o", "file">>, <<"o", "-">>}

UpToFour == UNION { [1 .. n -> Options] : n \in 0 .. 4 }

Value == ("-1" :> -1) @@ ("0" :> 0) @@ ("5" :> 5) @@ ("6" :> 6)
=============================================================================
