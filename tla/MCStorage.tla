----------------------------- MODULE MCStorage ------------------------------
(***************************************************************************)
(* Two small disks.  On the first a cluster is one sector, the table also  *)
(* names a partition of another kind, and the directory has names of three *)
(* letters, of two (as many as are cleared here) and of one.  On the       *)
(* second a cluster is two sectors and there is a file that passes for the *)
(* init program.  The stack holds the tables of either, or zeros.          *)
(***************************************************************************)
EXTENDS Storage

Entry_(name, kind, size, c) ==
    [name |-> name, ext |-> "com", size |-> size, cluster |-> c, kind |-> kind]

Unused == [c \in 1 .. LastSector |-> 0]

MCDisks ==
    {[parts |-> <<"fat", "none", "other">>, spc |-> 1,
      dir |-> <<Entry_(<<"a", "b", "c">>, "file", 3, 3), Entry_(<<"a", "b">>, "file", 1, 6),
                Entry_(<<"b">>, "dir", 0, 7), Entry_(<<"a">>, "file", 1, 8),
                Entry_(<< >>, "end", 0, 0)>>,
      next |-> [Unused EXCEPT ![3] = 5, ![5] = 4]],
     [parts |-> <<"fat">>, spc |-> 2,
      dir |-> <<Entry_(<<"b">>, "long", 2, 3), Entry_(<<"a", "b">>, "file", 3, 3),
                Entry_(<<"b">>, "init", 1, 5)>>,
      next |-> [Unused EXCEPT ![3] = 4]]}

MCDebris ==
    {[spc |-> d.spc, dir |-> d.dir] : d \in MCDisks} \cup {[spc |-> 0, dir |-> << >>]}

MCTyped == [name : {<<"a">>, <<"b">>, <<"a", "b">>, <<"a", "b", "c">>}, ext : {"com"}]

MCCounts == {-1, 0, 1, 4, 5}

\* Its files have all their clusters.
ASSUME Whole == ChainsWhole
=============================================================================
