------------------------------ MODULE MCArchives ------------------------------
(* The archives MCIntake selects: layouts of up to three members, where the    *)
(* directory and the end record may claim any place, size, number or content.  *)
EXTENDS Naturals, Sequences

MCFold(name) == IF name = "A" THEN "a" ELSE name

Content(stored, used, size, real, sound, supported, local) ==
  [stored : stored, used : used, size : size, real : real, sound : sound, supported : supported, local : local]

Entries(contents, names, places) ==
  {[stored |-> c.stored, used |-> c.used, size |-> c.size, real |-> c.real, sound |-> c.sound,
    supported |-> c.supported, local |-> c.local, name |-> name, at |-> at] :
     c \in contents, name \in names, at \in places}

\* Nothing is wrong with a member but, perhaps, what it declares.
Clean(c) == c.sound /\ c.supported /\ c.local = "same" /\ c.used = c.stored
Anything ==
  {c \in Content(0..2, 0..2, 0..3, 0..3, BOOLEAN, BOOLEAN, {"same", "other"}) :
     /\ c.used <= c.stored
     /\ (c.supported /\ c.local = "same") \/ (c.sound /\ c.used = c.stored /\ c.real = c.size)
     /\ c.supported \/ c.local = "same"}
Packed == {c \in Anything : Clean(c) /\ c.stored < 2 /\ c.real = c.size /\ c.size < 3}
Plain  == Content({1}, {1}, {1}, {1}, {TRUE}, {TRUE}, {"same"})
Larger(stored, sizes) == Content(stored, stored, sizes, 0..3, {TRUE}, {TRUE}, {"same"})
Odd    == Content({1}, 0..1, {1}, {1}, BOOLEAN, BOOLEAN, {"same", "sizes", "other"})

\* Members anywhere, and members that expand to more than they declare.
Layouts ==
  {<<>>} \cup {<<e>> : e \in Entries(Anything, {"a"}, 0..1)}
  \cup {<<e, f>> : e \in Entries(Packed, {"a"}, 0..2), f \in Entries(Packed, {"a", "A", "b"}, 0..2)}
  \cup {<<e, f, g>> : e \in Entries(Plain, {"a"}, 0..4), f \in Entries(Plain, {"b"}, 0..4),
                      g \in Entries(Plain, {"c"}, 0..4)}
Expanding ==
  {<<e>> : e \in Entries(Odd \cup Larger({1}, 0..3), {"a"}, 0..2)}
  \cup {<<e, f>> : e \in Entries(Odd \cup Larger({0, 1}, 0..2), {"a"}, {0}),
                   f \in Entries(Larger({1}, 1..2), {"A", "b"}, 0..2)}
  \cup {<<e, f, g>> : e \in Entries(Larger({1}, 0..1), {"a"}, {0}), f \in Entries(Larger({1}, 0..1), {"b"}, {1, 2}),
                      g \in Entries(Larger({1}, 0..1), {"c"}, {4})}

\* The end record may name another place, size or number of entries than there are.
Claims(directories, places) ==
  {a \in [dir : directories, dirAt : places, gap : 0..1, offset : 1..6, size : 0..3, count : 0..4] :
     /\ a.offset + a.size = a.dirAt + Len(a.dir) + a.gap
     /\ a.dirAt - 1 <= a.offset /\ a.offset <= a.dirAt + 1
     /\ a.count \in {Len(a.dir) - 1, Len(a.dir), Len(a.dir) + 1}}
MCArchives ==
  Claims({l \in Layouts : Len(l) < 3}, 1..5) \cup Claims({l \in Layouts : Len(l) = 3}, 1..6)
  \cup {a \in Claims(Expanding, 1..6) : /\ a.dirAt = a.offset /\ (Len(a.dir) = 3 => a.dirAt = 6) /\ (Len(a.dir) < 2 => a.dirAt < 4)
                                        /\ a.count \in {Len(a.dir), Len(a.dir) + 1}}
=============================================================================
