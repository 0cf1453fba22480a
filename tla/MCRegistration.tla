--------------------------- MODULE MCRegistration ---------------------------
(* Computers without disks and with short, long and equal-looking serials; licences in *)
(* capitals and small letters, one without a language, one for another key.            *)
EXTENDS Login

one == <<<< <<"A", "1">>, <<"1", "1">> >>>>
two == one \o <<<< <<"1", "A">> >>>>
other == <<<< <<"1", "1">> >>>>
MCComputers == {<< >>, one, two, other}

MCFold == [c \in {"A"} |-> "a"]

Rest == <<"n", "c", "n", "r", "n", "e", "n", "p", "n", "l", "n", "g">>
\* Another password and another language.
Else == <<"n", "c", "n", "r", "n", "e", "n", "q", "n", "k", "n", "g">>
\* Language and log password are empty: the lines of the comment and nothing behind.
Poor == <<"n", "c", "n", "r", "n", "e", "n", "p", "n", "n">>
Six  == <<"n", "c", "n", "r", "n", "e", "n", "p", "n", "l">>

Issued(d, rest, sealed) == [owner |-> d, text |-> IdCode(d) \o rest, sealed |-> sealed]

MCLicences ==
  { Issued(one, Rest, TRUE), Issued(other, Else, TRUE), Issued(<< >>, Rest, TRUE),
    Issued(one, Poor, TRUE), Issued(other, Six, TRUE), Issued(other, Rest, FALSE),
    [owner |-> two, text |-> Folded(IdCode(two)) \o Rest \o <<"n">>, sealed |-> TRUE] }

=============================================================================
