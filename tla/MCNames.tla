------------------------------ MODULE MCNames -------------------------------
(* Maps of up to MaxEntries entries with one-letter spellings, so that a    *)
(* table may be another entry's command name, in two layouts; and all short *)
(* texts.                                                                   *)
EXTENDS Names, SequencesExt

MCLetters == {"j", "s", "x"}
MCLabels == {<<c>> : c \in MCLetters}
MaxEntries == 3
MaxChars == 6

UpTo(S, n) == UNION {[1 .. k -> S] : k \in 0 .. n}
Lines(S, n) == {FoldLeft(LAMBDA text, line : text \o line, <<>>, ls) : ls \in UpTo(S, n)}
MCSpecs ==
  Lines({<<t, "=", n, ";">> : t \in MCLetters, n \in MCLetters}, MaxEntries)
    \cup Lines({<<" ", "j", "\t", "=", "s", "=", "\r", "\n">>,
               <<"x", "=", " ", "j", " ">>, <<"\n">>, <<" ", "\r", ";">>}, MaxEntries)
    \cup UpTo({"j", "=", ";", " ", "\r"}, MaxChars)
=============================================================================
