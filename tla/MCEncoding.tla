------------------------------- MODULE MCEncoding -------------------------------
(* A small instance of Encoding: all arguments of up to five words, among  *)
(* them bare names of files in the job directory, and progress of up to    *)
(* three lines, the last one with or without its end.                      *)
EXTENDS Encoding

MCDocuments ==
  {[args |-> a, flaws |-> {}] : a \in SeqOf({"-i", "{input}", "{output}", "input", "output.mp4"}, 5)}
  \cup {[args |-> <<"-i", "{input}", "{output}">>, flaws |-> {f}] :
          f \in JobFlaws \cup EndpointFlaws}

\* With LineLimit = 3: as long as kept, one and two characters longer, above
\* Top, without a number, and no counter.
Lines == {<<>>, <<"frame", "1">>, <<"frame", "2">>, <<"total_size", "1", "0">>,
          <<"frame", "1", "0", "1">>, <<"frame", "1", "2", "0", "1">>,
          <<"frame", "2", "1">>, <<"frame">>, <<"1", "2">>, <<"x", "frame", "1">>}

MCOutputs == {a \o <<"\n">> \o b \o <<"\n">> \o c : a, b, c \in Lines}
             \cup {a \o <<"\n">> \o b \o <<"\n">> : a, b \in Lines}
=============================================================================
