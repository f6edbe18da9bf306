-------------------------- MODULE TransportProofs --------------------------
(***************************************************************************)
(* What holds of the positions of JACK's transport for integers of any     *)
(* width, any values a script sets and any number of fields it changes.    *)
(***************************************************************************)
EXTENDS Transport, TLAPS

(* A table has a part's key when, and only when, it was made of a position *)
(* with that part.                                                         *)
LEMMA KeyTells ==
  ASSUME NEW parts \in SUBSET Parts, NEW part \in Parts
  PROVE  Key(part) \in Fields /\ (Key(part) \in Of(parts) <=> part \in parts)
<1>1. Key(part) \in Members(part) /\ Key(part) \notin Mandatory
  BY DEF Key, Members, Parts, Mandatory
<1>2. ASSUME NEW other \in Parts, Key(part) \in Members(other) PROVE other = part
  BY <1>2 DEF Key, Members, Parts
<1> QED BY <1>1, <1>2 DEF Of, Fields

LEMMA OfIsFields == ASSUME NEW parts \in SUBSET Parts PROVE Of(parts) \subseteq Fields
BY DEF Of, Fields

(* An integer that comes from JACK goes back as it was.                    *)
LEMMA StoredKeeps ==
  ASSUME NEW field \in JackFields, NEW f \in Fields
  PROVE  Stored(f, field[f]) = field[f]
BY TransportAssumption

(* An unsigned field gets one of the values of its width, a signed one one *)
(* of both signs.                                                          *)
LEMMA StoredFits ==
  ASSUME NEW v \in Int, NEW f
  PROVE  /\ f \in Unsigned => Stored(f, v) \in 0 .. Word - 1
         /\ f \in Signed => Stored(f, v) \in -Half .. Half - 1
<1>1. Half \in Nat /\ Word \in Nat \ {0} /\ Word = 2 * Half
  BY TransportAssumption DEF Word
<1>2. v % Word \in 0 .. Word - 1 /\ (v + Half) % Word \in 0 .. Word - 1
  BY <1>1
<1>3. Unsigned \cap Signed = {}
  BY DEF Unsigned, Signed
<1> QED BY <1>1, <1>2, <1>3 DEF Stored

----------------------------------------------------------------------------
(* The inductive invariant.                                                *)

LEMMA InitPosInv == PosInit => PosInv
BY DEF PosInit, PosInv

LEMMA QueryPosInv ==
  ASSUME PosInv, NEW valid \in SUBSET Parts, NEW field \in JackFields,
         TransportQuery(valid, field)
  PROVE  PosInv'
<1> DEFINE pos == [valid |-> valid, field |-> field]
<1>1. /\ changes = Empty /\ requested = NoPosition /\ queried' = pos
      /\ table' = [f \in Of(valid) |-> field[f]]
      /\ UNCHANGED <<changes, requested>>
  BY DEF TransportQuery, PosInv, transport_pushposition
<1>2. pos \in Position /\ pos # NoPosition
  BY TransportAssumption, NoPositionAssumption DEF Position
<1>3. DOMAIN changes = {}
  BY <1>1 DEF Empty
<1>4. TableInv'
  <2>1. DOMAIN table' = {f \in Fields : Present(f)'}
    BY <1>1, <1>3, OfIsFields DEF Present
  <2> QED BY <1>1, <1>2, <1>3, <2>1 DEF TableInv
<1> QED BY <1>1, <1>2, <1>4 DEF PosInv

LEMMA SetFieldPosInv ==
  ASSUME PosInv, NEW f \in Fields, NEW v \in Values, SetField(f, v)
  PROVE  PosInv'
<1>1. /\ queried # NoPosition /\ requested = NoPosition /\ TableInv
      /\ changes' = [g \in DOMAIN changes \cup {f} |-> IF g = f THEN v ELSE changes[g]]
      /\ table' = [g \in DOMAIN table \cup {f} |-> IF g = f THEN v ELSE table[g]]
      /\ UNCHANGED <<queried, requested>>
  BY DEF SetField, MayChange, Note, PosInv
<1>2. v # Nil
  BY TransportAssumption
<1>3. \A g : Present(g)' <=> g = f \/ Present(g)
  BY <1>1, <1>2 DEF Present
<1>4. TableInv'
  <2>1. DOMAIN table' = {g \in Fields : Present(g)'}
    BY <1>1, <1>3 DEF TableInv
  <2>2. ASSUME NEW g \in DOMAIN table'
        PROVE  table'[g] = IF g \in DOMAIN changes' THEN changes'[g] ELSE queried'.field[g]
    BY <1>1, <2>2 DEF TableInv
  <2> QED BY <1>1, <2>1, <2>2 DEF TableInv
<1> QED BY <1>1, <1>4 DEF PosInv

LEMMA RemoveFieldPosInv ==
  ASSUME PosInv, NEW f \in Fields, RemoveField(f)
  PROVE  PosInv'
<1>1. /\ queried # NoPosition /\ requested = NoPosition /\ TableInv
      /\ changes' = [g \in DOMAIN changes \cup {f} |-> IF g = f THEN Nil ELSE changes[g]]
      /\ table' = [g \in DOMAIN table \ {f} |-> table[g]]
      /\ UNCHANGED <<queried, requested>>
  BY DEF RemoveField, MayChange, Note, PosInv
<1>2. \A g : Present(g)' <=> g # f /\ Present(g)
  BY <1>1 DEF Present
<1>3. TableInv'
  <2>1. DOMAIN table' = {g \in Fields : Present(g)'}
    BY <1>1, <1>2 DEF TableInv
  <2>2. ASSUME NEW g \in DOMAIN table'
        PROVE  table'[g] = IF g \in DOMAIN changes' THEN changes'[g] ELSE queried'.field[g]
    BY <1>1, <2>2 DEF TableInv
  <2> QED BY <1>1, <2>1, <2>2 DEF TableInv
<1> QED BY <1>1, <1>3 DEF PosInv

LEMMA NextPosInv == PosInv /\ [PosNext]_posvars => PosInv'
<1> SUFFICES ASSUME PosInv, [PosNext]_posvars PROVE PosInv'
  OBVIOUS
<1>1. ASSUME NEW valid \in SUBSET Parts, NEW field \in JackFields,
             TransportQuery(valid, field)
      PROVE  PosInv'
  BY <1>1, QueryPosInv
<1>2. ASSUME NEW f \in Fields, NEW v \in Values, SetField(f, v) PROVE PosInv'
  BY <1>2, SetFieldPosInv
<1>3. ASSUME NEW f \in Fields, RemoveField(f) PROVE PosInv'
  BY <1>3, RemoveFieldPosInv
<1>4. CASE TransportReposition
  BY <1>4 DEF TransportReposition, PosInv, TableInv, RequestInv, Present
<1>5. CASE Forget
  BY <1>5 DEF Forget, PosInv
<1>6. CASE UNCHANGED posvars
  BY <1>6 DEF posvars, PosInv, TableInv, RequestInv, Present
<1> QED BY <1>1, <1>2, <1>3, <1>4, <1>5, <1>6 DEF PosNext

----------------------------------------------------------------------------
(* The table is what the position and the script's changes make of it.     *)
THEOREM TableTells == PosSpec => []PosInv
BY InitPosInv, NextPosInv, PTL DEF PosSpec

(* JACK is asked for the position that was queried but for what the script *)
(* has changed.                                                            *)
THEOREM PositionKept == PosSpec => []RepositionKeeps
<1>1. ASSUME PosInv PROVE RepositionKeeps
  <2> SUFFICES ASSUME requested # NoPosition
               PROVE  /\ \A part \in Parts : part \in requested.valid <=> StillValid(part)
                      /\ \A f \in Of(requested.valid) :
                           requested.field[f] = IF f \in DOMAIN changes THEN Stored(f, changes[f])
                                                ELSE queried.field[f]
                      /\ \A f \in Fields \ Of(requested.valid) : requested.field[f] = 0
    BY DEF RepositionKeeps
  <2>1. TableInv /\ Complete(table) /\ requested = transport_checkposition(table)
    BY <1>1 DEF PosInv, RequestInv
  <2>2. /\ requested.valid = ValidParts(table) /\ requested.valid \subseteq Parts
        /\ \A f \in Fields : requested.field[f] =
             IF f \in Of(requested.valid) THEN Stored(f, table[f]) ELSE 0
    BY <2>1 DEF transport_checkposition, ValidParts
  <2>3. /\ queried.valid \in SUBSET Parts /\ queried.field \in JackFields
        /\ DOMAIN table = {f \in Fields : Present(f)}
    BY <2>1 DEF TableInv, Position
  <2>4. ASSUME NEW part \in Parts PROVE part \in requested.valid <=> StillValid(part)
    <3>1. /\ Key(part) \in Fields
          /\ Key(part) \in Of(queried.valid) <=> part \in queried.valid
      BY <2>3, KeyTells
    <3> QED BY <2>2, <2>3, <3>1 DEF ValidParts, Present, StillValid
  <2>5. ASSUME NEW f \in Of(requested.valid)
        PROVE  requested.field[f] = IF f \in DOMAIN changes THEN Stored(f, changes[f])
                                    ELSE queried.field[f]
    <3>1. f \in Fields /\ f \in DOMAIN table
      BY <2>1, <2>2, OfIsFields DEF Complete
    <3>2. requested.field[f] = Stored(f, table[f])
      BY <2>2, <3>1
    <3>3. table[f] = IF f \in DOMAIN changes THEN changes[f] ELSE queried.field[f]
      BY <2>1, <3>1 DEF TableInv
    <3>4. Stored(f, queried.field[f]) = queried.field[f]
      BY <2>3, <3>1, StoredKeeps
    <3> QED BY <3>2, <3>3, <3>4
  <2> QED BY <2>2, <2>4, <2>5
<1> QED BY <1>1, TableTells, PTL
=============================================================================
