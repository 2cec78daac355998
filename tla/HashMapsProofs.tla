--------------------------- MODULE HashMapsProofs ---------------------------
(* What the operations of HashMaps keep.                                   *)
EXTENDS HashMaps, TLAPS

\* A map is a function on some of the keys.
LEMMA MapIs ==
    ASSUME NEW keys, NEW values, NEW map
    PROVE  map \in MapsFrom(keys, values)
             <=> DOMAIN map \subseteq keys /\ map \in [DOMAIN map -> values]
  <1>1. ASSUME NEW some \in SUBSET keys, map \in [some -> values]
        PROVE  DOMAIN map \subseteq keys /\ map \in [DOMAIN map -> values]
    <2>1. DOMAIN map = some
      BY <1>1
    <2> QED
      BY <1>1, <2>1
  <1>2. ASSUME DOMAIN map \subseteq keys, map \in [DOMAIN map -> values]
        PROVE  \E some \in SUBSET keys : map \in [some -> values]
    BY <1>2
  <1> QED
    BY <1>1, <1>2 DEF MapsFrom

LEMMA MapValue ==
    ASSUME NEW keys, NEW values, NEW map \in MapsFrom(keys, values),
           NEW key \in DOMAIN map
    PROVE  key \in keys /\ map[key] \in values
  BY MapIs

LEMMA MapEmpty ==
    ASSUME NEW keys, NEW values
    PROVE  EmptyMap \in MapsFrom(keys, values) /\ DOMAIN EmptyMap = {}
  <1>1. DOMAIN EmptyMap = {} /\ EmptyMap \in [{} -> values]
    BY DEF EmptyMap
  <1> QED
    BY <1>1, MapIs

LEMMA PutDomain ==
    ASSUME NEW map, NEW key, NEW value
    PROVE  DOMAIN Put(map, key, value) = DOMAIN map \cup {key}
  BY DEF Put

LEMMA MapPut ==
    ASSUME NEW keys, NEW values, NEW map \in MapsFrom(keys, values),
           NEW key \in keys, NEW value \in values
    PROVE  Put(map, key, value) \in MapsFrom(keys, values)
  <1>1. \A k \in DOMAIN map : map[k] \in values
    BY MapValue
  <1>2. Put(map, key, value) \in [DOMAIN map \cup {key} -> values]
    BY <1>1 DEF Put
  <1> QED
    BY <1>2, PutDomain, MapIs

LEMMA DropDomain ==
    ASSUME NEW map, NEW key
    PROVE  DOMAIN Drop(map, key) = DOMAIN map \ {key}
  BY DEF Drop

LEMMA MapDrop ==
    ASSUME NEW keys, NEW values, NEW map \in MapsFrom(keys, values), NEW key
    PROVE  Drop(map, key) \in MapsFrom(keys, values)
  <1>1. \A k \in DOMAIN map : map[k] \in values
    BY MapValue
  <1>2. Drop(map, key) \in [DOMAIN map \ {key} -> values]
    BY <1>1 DEF Drop
  <1> QED
    BY <1>2, DropDomain, MapIs

\* EXCEPT replaces the value of a key the map has.
LEMMA MapUpdate ==
    ASSUME NEW keys, NEW values, NEW map \in MapsFrom(keys, values),
           NEW key, NEW value \in values
    PROVE  [map EXCEPT ![key] = value] \in MapsFrom(keys, values)
  <1>1. DOMAIN [map EXCEPT ![key] = value] = DOMAIN map
    OBVIOUS
  <1>2. map \in [DOMAIN map -> values]
    BY MapIs
  <1>3. [map EXCEPT ![key] = value] \in [DOMAIN map -> values]
    BY <1>2
  <1> QED
    BY <1>1, <1>3, MapIs
=============================================================================
