---------------------------- MODULE PatternTable ----------------------------
(***************************************************************************)
(* The pattern table of the LDS prefetcher (pattern_table.hh and .cc): it  *)
(* watches decoded instructions for loads whose result is the base address *)
(* of another load, has the addresses of such pointers translated and      *)
(* prefetches what they point to.  The class does not compile as it        *)
(* stands; names that differ only in spelling (pf and pointer, valid and   *)
(* PT_entry_valid) are taken for the same member.  The condition "pattern  *)
(* table is empty" of DecodedInstAccess is English and can be read in two  *)
(* ways; EmptyMeans chooses one.  Addresses and offsets are left out.      *)
(***************************************************************************)
EXTENDS Naturals, Sequences

CONSTANTS
    pattern_table_set,  \* number of entries
    pt_maxnumpointers,  \* pointer fields of an entry
    Regs,               \* register numbers
    EmptyMeans          \* "no entry" or "no valid entry"

VARIABLES
    pattern_table,      \* sequence of entries
    first,              \* base register of the first load (history)
    pointers            \* what later loads with that base, and a field left for
                        \* them, have loaded (history)

vars == <<pattern_table, first, pointers>>
history == <<first, pointers>>

NoReg == "none"
Fields == 1 .. pt_maxnumpointers
NewField ==
    [valid |-> FALSE, dest_reg |-> NoReg, v_pointer |-> FALSE, pref |-> FALSE,
     addr_valid |-> FALSE, translating |-> FALSE, pref_issued |-> FALSE]

(* new PT_entry leaves the fields uninitialized (and the status, which     *)
(* nothing reads).                                                         *)
AnyField ==
    [valid : BOOLEAN, dest_reg : Regs \cup {NoReg}, v_pointer : BOOLEAN,
     pref : BOOLEAN, addr_valid : BOOLEAN, translating : BOOLEAN,
     pref_issued : BOOLEAN]
NewEntry ==
    [valid |-> FALSE, src_base_reg |-> NoReg, pte_status |-> "idle",
     pf |-> [j \in Fields |-> NewField]]

(* The constructor resizes the vector and resets every entry.              *)
Init ==
    /\ pattern_table = [k \in 1 .. pattern_table_set |-> NewEntry]
    /\ first = NoReg /\ pointers = {}

(* "pattern table is empty".                                               *)
TableEmpty ==
    IF EmptyMeans = "no entry" THEN pattern_table = <<>>
    ELSE \A k \in DOMAIN pattern_table : ~pattern_table[k].valid

(* The entries visited by for (it = begin(); it != begin(); it++), the     *)
(* loop of DecodedInstAccess and calculatePref: those before begin().      *)
Begin == 1
Visited == {k \in DOMAIN pattern_table : Begin <= k /\ k < Begin}

Least(S) == CHOOSE k \in S : \A j \in S : k <= j
Upto(S) == {k \in Visited : \A j \in S : k < j}     \* visited before the return

FreeFields(e) == {j \in Fields : ~e.pf[j].valid}

(* A load: a new entry for an empty table; otherwise a field of the entry  *)
(* of its base register, and a mark on the fields that loaded its base.    *)
Marked(e, src) ==
    [e EXCEPT !.pf = [j \in Fields |->
        [@[j] EXCEPT !.v_pointer = @ \/ (e.pf[j].valid /\ e.pf[j].dest_reg = src)]]]
Recorded(e, dest) ==
    LET j == Least(FreeFields(e))
    IN  [e EXCEPT !.pf[j].valid = TRUE, !.pf[j].dest_reg = dest]

(* The entries of a base register have a field left.                       *)
HasField(src) ==
    \A k \in DOMAIN pattern_table :
        pattern_table[k].src_base_reg = src => FreeFields(pattern_table[k]) # {}

DecodedLoad(src, dest) ==
    LET hits == {k \in Visited : /\ pattern_table[k].src_base_reg = src
                                 /\ FreeFields(pattern_table[k]) # {}}
    IN  /\ first' = IF first = NoReg THEN src ELSE first
        /\ pointers' = IF first = src /\ HasField(src) THEN pointers \cup {dest}
                                                       ELSE pointers
        /\ \/ /\ TableEmpty
              /\ \E pf \in [Fields -> AnyField] :
                    pattern_table' = Append(pattern_table,
                        [NewEntry EXCEPT !.valid = TRUE, !.src_base_reg = src, !.pf = pf])
           \/ /\ ~TableEmpty
              /\ pattern_table' = [k \in DOMAIN pattern_table |->
                     IF hits # {} /\ k = Least(hits)
                     THEN Recorded(pattern_table[k], dest)
                     ELSE IF k \in Upto(hits) /\ pattern_table[k].src_base_reg # src
                     THEN Marked(pattern_table[k], src)
                     ELSE pattern_table[k]]

(* Another instruction overwrites a register that held a pointer.          *)
DecodedNonLoad(dest) ==
    LET holds(k) == {j \in Fields : pattern_table[k].pf[j].dest_reg = dest}
        hits == {k \in Visited : holds(k) # {}}
    IN  /\ pattern_table' =
             IF hits = {} THEN pattern_table
             ELSE [pattern_table EXCEPT
                     ![Least(hits)].pf[Least(holds(Least(hits)))].valid = FALSE]
        /\ UNCHANGED history

(* The loops over all entries: needAccessTLB and stopPref.     *)
needAccessTLB ==
    /\ pattern_table' = [k \in DOMAIN pattern_table |->
          [pattern_table[k] EXCEPT !.pf = [j \in Fields |->
             [@[j] EXCEPT !.translating =
                \/ @
                \/ /\ pattern_table[k].valid /\ pattern_table[k].pf[j].valid
                   /\ ~pattern_table[k].pf[j].addr_valid]]]]
    /\ UNCHANGED history

stopPref ==
    /\ pattern_table' = [k \in DOMAIN pattern_table |->
          [pattern_table[k] EXCEPT !.pte_status =
             IF pattern_table[k].valid THEN "meet_mispred" ELSE @]]
    /\ UNCHANGED history

(* The translation of a pointer is finished.                               *)
updatePaddr(k, j) ==
    /\ pattern_table' = [pattern_table EXCEPT ![k].pf[j].addr_valid = TRUE]
    /\ UNCHANGED history

(* A prefetch leaves for the first pointer that is valid, translated and   *)
(* predicted, and not prefetched yet.                                      *)
calculatePref ==
    LET ready(k) == {j \in Fields :
                       LET f == pattern_table[k].pf[j]
                       IN  f.valid /\ f.addr_valid /\ ~f.pref_issued /\ f.pref}
        hits == {k \in Visited : pattern_table[k].valid /\ ready(k) # {}}
    IN  /\ hits # {}
        /\ pattern_table' = [pattern_table EXCEPT
              ![Least(hits)].pf[Least(ready(Least(hits)))].pref_issued = TRUE]
        /\ UNCHANGED history

Next ==
    \/ \E src, dest \in Regs : DecodedLoad(src, dest)
    \/ \E dest \in Regs : DecodedNonLoad(dest)
    \/ needAccessTLB
    \/ stopPref
    \/ \E k \in DOMAIN pattern_table, j \in Fields : updatePaddr(k, j)
    \/ calculatePref

Spec == Init /\ [][Next]_vars

(* A load from the node whose base register the first load brought into    *)
(* the table is recorded as a potential pointer, by its destination        *)
(* register, when the entry has a field left.                              *)
PointersAreRecorded ==
    pointers # {} => \E k \in DOMAIN pattern_table, j \in Fields :
                         pattern_table[k].pf[j].dest_reg \in pointers
=============================================================================
