------------------------------ MODULE ChunkKeys ------------------------------
(* Chunk keys and the page catalog (src/addons/world_transvoxel/src/core/    *)
(* wt_chunk_key.cpp, storage/wt_page_hierarchy.cpp).  One axis of the three: *)
(* a key is <<lod, x>>, a family has two children instead of eight and a     *)
(* chunk two faces instead of six.  Lengths are in LOD0 chunk extents.       *)
EXTENDS Integers, FiniteSets

CONSTANTS
  MaximumLod,  \* kWtMaximumLod
  Catalog,     \* the pages of the world
  Explicit     \* a catalog that lists its pages, or a procedural one

ASSUME CatalogAssumption ==
  /\ MaximumLod \in Nat
  /\ Explicit \in BOOLEAN
  /\ \A key \in Catalog : key[1] \in 0..MaximumLod /\ key[2] \in Int

Lod(key) == key[1]
Extent(lod) == 2^lod
LowEnd(key) == key[2] * Extent(Lod(key))
HighEnd(key) == LowEnd(key) + Extent(Lod(key))

\* Keys are ordered by level, finest first, then by place.
Precedes(a, b) == a[1] < b[1] \/ (a[1] = b[1] /\ a[2] < b[2])
Least(keys) == CHOOSE k \in keys : \A o \in keys : k = o \/ Precedes(k, o)

Parent(key) == <<key[1] + 1, key[2] \div 2>>
AncestorAt(key, lod) == <<lod, key[2] \div 2^(lod - key[1])>>

\* The key and every key above it.
Above(key) == {AncestorAt(key, l) : l \in Lod(key)..MaximumLod}
ProperAncestors(key, lod) == {AncestorAt(key, l) : l \in (Lod(key) + 1)..lod}

\* bounds_contain, keys_overlap: dyadic bounds nest or are apart.
Encloses(outer, inner) == outer \in Above(inner)
Overlap(a, b) == Encloses(a, b) \/ Encloses(b, a)
Covered(key, leaves) == \E leaf \in leaves : Encloses(leaf, key)

NextTo(key) == {<<key[1], key[2] - 1>>, <<key[1], key[2] + 1>>}

ChildKeys(key) == {<<key[1] - 1, 2 * key[2]>>, <<key[1] - 1, 2 * key[2] + 1>>}

\* The family a chunk splits into, or {} when the catalog cannot split it: a
\* listed catalog needs the whole family, a procedural one what it declares.
RefinableChildren(key) ==
  LET declared == ChildKeys(key) \cap Catalog IN
  IF Lod(key) = 0 \/ key \notin Catalog \/ (Explicit /\ declared # ChildKeys(key))
  THEN {} ELSE declared

\* The pages of one level around a viewer.
ViewerRoots(at, lod, radius) ==
  LET center == at \div Extent(lod)
  IN {key \in Catalog : Lod(key) = lod /\ key[2] \in (center - radius)..(center + radius)}

DistanceTo(at, key) ==
  IF at < LowEnd(key) THEN LowEnd(key) - at
  ELSE IF at > HighEnd(key) THEN at - HighEnd(key) ELSE 0
=============================================================================
