--------------------------- MODULE MCNarratorPrefs ---------------------------
(* NarratorPrefs for TLC: the lines of the prefs files.                     *)
EXTENDS NarratorPrefs

\* The keys, a line that is commented out, and a name that begins like a key.
MCNames  == Keys \cup {<<"#">> \o gain, gain \o <<"1">>}
MCGaps   == {<<Blank>>, <<Blank, Blank>>}
\* Empty, a text, numbers that are too small, fit, are too large for a gain,
\* overflow a long, do not fit their field, and one with a comment behind it.
MCValues == {<<>>, <<"v">>, <<"0">>, <<"9", "0">>, <<"1", "9", "9">>, <<"9", "9", "9">>,
             <<"9", "0", "0", "1">>, <<"9", Blank, "#", "1">>}
\* Lines that are indented.
MCIndented == {<<Blank>> \o name \o <<Blank, "1">> : name \in {voice, port, <<"#">> \o port}}
MCLines  == MCNames \cup {name \o gap \o value : name \in MCNames, gap \in MCGaps,
                                                 value \in MCValues}
                    \cup MCIndented
=============================================================================
