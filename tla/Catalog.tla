------------------------------- MODULE Catalog -------------------------------
(***************************************************************************)
(* What a MiniDB::Core::Database promises its callers: a list of named     *)
(* tables in creation order, which a file keeps and gives back as a whole. *)
(* No ids, no pointers, no indices: but a table can be given another name  *)
(* behind the back of its object, which then no longer finds its tables by *)
(* their names and can list one name twice.                                *)
(***************************************************************************)
EXTENDS Naturals, Sequences

CONSTANTS Dbs, Names, Contents,
          New,        \* what a new table holds
          Gone,       \* no such Database object
          Lost,       \* an object a load left unusable
          NoFile      \* nothing saved yet

VARIABLES cat,    \* Dbs -> the tables of each object
          disk,   \* the tables in the file
          stray,  \* the objects that no longer go by the names of their tables
          mixed   \* the file is one that only a stray object saves

catVars == <<cat, disk, stray, mixed>>

Named(c) == {c[k].name : k \in DOMAIN c}
Alive(d) == cat[d] \notin {Gone, Lost}

(* The list c without its k-th table.                                       *)
Dropped(c, k) == [i \in 1 .. Len(c) - 1 |-> IF i < k THEN c[i] ELSE c[i + 1]]

(* What is left of the list c when any of its tables are taken out.         *)
Left(c) == {[i \in DOMAIN f |-> c[f[i]]] :
              f \in {g \in UNION {[1 .. n -> DOMAIN c] : n \in 0 .. Len(c)} :
                       \A i, j \in DOMAIN g : i < j => g[i] < g[j]}}

Init == cat = [d \in Dbs |-> Gone] /\ disk = NoFile /\ stray = {} /\ mixed = FALSE

-----------------------------------------------------------------------------
(* What a call may make of the object d.                                   *)

Strays(d, yes) == d \in stray' <=> yes
Stays(d) == Strays(d, d \in stray)

Construct(d) == cat[d] = Gone /\ cat'[d] = <<>> /\ Stays(d)
Destroy(d)   == Alive(d) /\ cat'[d] = Gone /\ Strays(d, FALSE)
Load(d)      == Alive(d) /\ disk # NoFile /\ cat'[d] = disk /\ Strays(d, mixed)

(* The one load that is not all or nothing: of a file without the name.     *)
Lose(d) == Alive(d) /\ disk # NoFile /\ cat'[d] = Lost /\ Stays(d)

Create(d, n) == /\ Alive(d) /\ (d \notin stray => n \notin Named(cat[d]))
                /\ cat'[d] = Append(cat[d], [name |-> n, data |-> New])
                /\ Stays(d)
Drop(d) == /\ Alive(d) /\ Stays(d)
           /\ \/ \E k \in DOMAIN cat[d] : cat'[d] = Dropped(cat[d], k)
              \/ d \in stray /\ cat'[d] \in Left(cat[d])

(* A table gets another content; another name too makes the object stray.   *)
Change(d) ==
  /\ Alive(d) /\ cat'[d] \notin {Gone, Lost}
  /\ Stays(d) \/ Strays(d, TRUE)
  /\ \E k \in DOMAIN cat[d] \cap DOMAIN cat'[d] :
       LET new == cat'[d][k] IN
         /\ new \in [name : Names, data : Contents]
         /\ cat'[d] = [cat[d] EXCEPT ![k] = new]
         /\ d \notin stray' => new.name = cat[d][k].name

(* By construction or by assignment; the source is left empty.              *)
Move(d, e) == /\ d # e /\ cat[d] # Lost /\ Alive(e)
              /\ cat'[d] = cat[e] /\ cat'[e] = <<>>
              /\ Strays(d, e \in stray) /\ Strays(e, FALSE)

Save(d) == Alive(d) /\ disk' = cat[d] /\ (mixed' => d \in stray)

-----------------------------------------------------------------------------
Others(S) == \A e \in Dbs \ S : cat'[e] = cat[e] /\ Stays(e)
IsCatalog == cat' = [d \in Dbs |-> cat'[d]] /\ stray' \subseteq Dbs

(* A call that shows; the others change nothing of the catalog.             *)
Call ==
  \E d \in Dbs :
    \/ /\ Others({d})
       /\ \/ Construct(d) \/ Destroy(d) \/ Load(d) \/ Lose(d)
          \/ Change(d) \/ Drop(d)
          \/ \E n \in Names : Create(d, n)
    \/ \E e \in Dbs : Others({d, e}) /\ Move(d, e)

Next == \/ /\ <<cat, stray>>' # <<cat, stray>> /\ Call /\ IsCatalog
           /\ UNCHANGED <<disk, mixed>>
        \/ /\ <<disk, mixed>>' # <<disk, mixed>> /\ mixed' \in BOOLEAN
           /\ UNCHANGED <<cat, stray>>
           /\ \E d \in Dbs : Save(d)

Spec == Init /\ [][Next]_catVars
=============================================================================
