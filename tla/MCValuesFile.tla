---------------------------- MODULE MCValuesFile ----------------------------
(* The files and builds TLC tries ValuesFile on. *)
EXTENDS ValuesFile, TLC

\* Another block may hold keys of the same names, and so may a deeper level.
MCLines ==
    {Line(0, "image", Null), [Line(0, "image", Null) EXCEPT !.remark = TRUE], Line(0, "image", "old"),
     Line(0, "sidecar", Null), Banner,
     Line(2, "image", Null), Line(2, "image", "old"),
     Line(2, "repository", "old"), [Line(2, "tag", "old") EXCEPT !.remark = TRUE], Line(2, "digest", "old"),
     Line(2, "pullPolicy", Null), Line(2, Remark, Null),
     Line(4, "tag", "old"), Line(4, "digest", "old")}

CONSTANT MaxLines  \* bound: the length of a file

Grown[n \in 0 .. MaxLines] ==
    IF n = 0 THEN {<<>>}
    ELSE Grown[n - 1] \cup {lines \in {Append(text, line) : text \in Grown[n - 1], line \in MCLines} : WellFormed(lines)}

MCFiles == Grown[MaxLines]

MCTexts == STRING

MCImages == {[repository |-> "hub", tag |-> "t1", digest |-> "-"],
             [repository |-> "hub", tag |-> "t2", digest |-> "d2"],
             [repository |-> "ecr", tag |-> "t2", digest |-> "d3"]}
=============================================================================
