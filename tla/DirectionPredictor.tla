------------------------- MODULE DirectionPredictor -------------------------
(***************************************************************************)
(* The direction predictor of the LDS prefetcher (direction_predictor.hh   *)
(* and .cc): a direct-mapped table of prediction bits, read and written    *)
(* one entry (a cache block) or two entries (a pair of blocks) at a time.  *)
(* The class does not compile as it stands; where a statement is malformed *)
(* (assign_DP_entry names the array instead of its argument) the model     *)
(* takes the one reading that types.  Only pref1 of an entry is kept, the  *)
(* other copied bits are treated the same.                                 *)
(***************************************************************************)
EXTENDS Naturals

CONSTANTS
    Dire_PredSize,      \* entries of the table, a power of two
    CacheBlockBits,     \* cache_block_size: log2 of the block size
    MaxAddr             \* bound: addresses are 0 .. MaxAddr

VARIABLES
    dp_array,   \* index -> predicted bit
    outside     \* indices used beyond the end of the vector

vars == <<dp_array, outside>>

(* x & Dire_PredMask, with Dire_PredMask = Dire_PredSize - 1.              *)
Masked(x) == x % Dire_PredSize

calcu2DP_Eidx(addr) == Masked(addr \div 2 ^ (1 + CacheBlockBits))
calcu1DP_Eidx(addr) == Masked(addr \div 2 ^ CacheBlockBits)

(* The entries an access uses: two-entry mode takes the next one as well.  *)
Entries(addr, two_mode) ==
    IF two_mode THEN <<calcu2DP_Eidx(addr), calcu2DP_Eidx(addr) + 1>>
                ELSE <<calcu1DP_Eidx(addr)>>

Init ==
    /\ dp_array = [i \in 0 .. Dire_PredSize - 1 |-> FALSE]
    /\ outside = {}

Use(idx) ==
    outside' = outside \cup
        {idx[k] : k \in {j \in DOMAIN idx : idx[j] \notin DOMAIN dp_array}}

update_array(addr, bits, two_mode) ==
    LET idx == Entries(addr, two_mode)
    IN  /\ Use(idx)
        /\ dp_array' = [i \in DOMAIN dp_array |->
                          IF \E k \in DOMAIN idx : idx[k] = i
                          THEN bits[CHOOSE k \in DOMAIN idx : idx[k] = i]
                          ELSE dp_array[i]]

getPrediction(addr, two_mode) ==
    /\ Use(Entries(addr, two_mode))
    /\ UNCHANGED dp_array

Next ==
    \E addr \in 0 .. MaxAddr, two_mode \in BOOLEAN :
        \/ \E bits \in [1 .. 2 -> BOOLEAN] : update_array(addr, bits, two_mode)
        \/ getPrediction(addr, two_mode)

Spec == Init /\ [][Next]_vars

(* Every index computed from an address lies in the table of Dire_PredSize *)
(* entries, in both modes (the mask is there for that).                    *)
IndexInTable == outside = {}
=============================================================================
