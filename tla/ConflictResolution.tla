------------------------- MODULE ConflictResolution -------------------------
(***************************************************************************)
(* core/utils.py: how two versions of an entry are reconciled, and the     *)
(* Merkle root of a list of messages.  A version is a record with the      *)
(* fields version and at, where at = 0 stands for a missing timestamp.     *)
(***************************************************************************)
EXTENDS Integers, Sequences, SequencesExt

(* ConflictResolution.resolve: the higher version, then the later timestamp *)
(* if both have one, then the first argument.                              *)
Resolve(a, b) ==
  IF \/ b.version > a.version
     \/ b.version = a.version /\ a.at # 0 /\ b.at # 0 /\ b.at > a.at
  THEN b ELSE a

(* ConflictResolution.resolve_multiple, of a list that is not empty. *)
ResolveMultiple(versions) == FoldLeft(Resolve, Head(versions), Tail(versions))

------------------------------------------------------------------------------
(* The last hash of a level of odd length is left out. *)
Padded_bug(hashes) ==
  IF Len(hashes) % 2 = 1 THEN Front(hashes) ELSE hashes

(* A level of odd length is padded with its last hash. *)
Padded(hashes) ==
  IF Len(hashes) % 2 = 1 THEN Append(hashes, Last(hashes)) ELSE hashes

(* The digest of a concatenation stands for its parts. *)
Combined(hashes) ==
  [i \in 1..(Len(hashes) \div 2) |-> <<hashes[2 * i - 1], hashes[2 * i]>>]

(* compute_merkle_root, calculate_merkle_root: levels are combined until    *)
(* one hash is left; a list has fewer levels than items.  The digest of one *)
(* item stands for the item.                                               *)
NextLevel(hashes, item) ==
  IF Len(hashes) <= 1 THEN hashes ELSE Combined(Padded(hashes))

MerkleRoot(items) == FoldLeft(NextLevel, items, items)
=============================================================================
