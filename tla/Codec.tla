------------------------------- MODULE Codec -------------------------------
(***************************************************************************)
(* DynamicCacheCodec of codec.py: a state of nested Python values, encoded *)
(* by one process, carried as bytes by the store, and decoded by another.  *)
(*                                                                         *)
(* A value is a record with its type t: "str", "number" and "tensor" have  *)
(* a name v, a tensor its device, a "list", "tuple" or "pair" (a tuple of  *)
(* the codec's own) its items, a "dict" its entries, a "cache"             *)
(* (DynamicCache) its layers, pairs of tensors.  "other" is a value of any *)
(* other type.  torch.save and torch.load (external) keep a value and move *)
(* its tensors to the device asked for.                                    *)
(*                                                                         *)
(* The methods call themselves for what a value is made of.  Here each is  *)
(* a function on the parts of a value, defined by a step from the results  *)
(* for what is inside a part to the result for the part.                   *)
(***************************************************************************)
EXTENDS Integers, FiniteSets, SequencesExt

CONSTANTS
    Values,     \* the states to be encoded
    Devices,    \* the devices a decoder may ask for
    MaxNesting  \* how deep a state may be nested

FORMAT_VERSION == 1
Tag == "__graphkv_kind__"

VARIABLES
    value,      \* the state
    device,     \* where decode is to put its tensors
    stage,      \* "state", "wire", "decoded" or "raised"
    wire,       \* the payload: its format and its packed state
    restored    \* what decode has returned

vars == <<value, device, stage, wire, restored>>

(***************************************************************************)
(* Values.                                                                 *)
(***************************************************************************)
Nothing == [t |-> "none"]
Str(s) == [t |-> "str", v |-> s]
List(items) == [t |-> "list", items |-> items]
Tuple(items) == [t |-> "tuple", items |-> items]
Pair(items) == [t |-> "pair", items |-> items]
Dict(entries) == [t |-> "dict", entries |-> entries]
Cache(layers) == [t |-> "cache", layers |-> layers]
Tagged(kind, field, x) == Dict([name \in {Tag, field} |-> IF name = Tag THEN Str(kind) ELSE x])

Children(x) ==
    CASE x.t = "dict" -> Range(x.entries)
      [] x.t \in {"list", "tuple", "pair"} -> Range(x.items)
      [] x.t = "cache" -> UNION {Range(layer) : layer \in Range(x.layers)}
      [] OTHER -> {}

\* Below(x)[n]: the values n levels down in x.
Below(x) ==
    LET below[n \in Nat] ==
            IF n = 0 THEN {x} ELSE UNION {Children(y) : y \in below[n - 1]}
    IN  below

\* A packed state is nested deeper than the state.
Deepest == 2 * MaxNesting + 1

\* The values a value is made of, itself included.
Parts(x) == UNION {Below(x)[n] : n \in 0..Deepest}

\* A value as its type has it.
HasShape(x) ==
    CASE x.t \in {"none", "other"} -> TRUE
      [] x.t \in {"str", "number"} -> x = [t |-> x.t, v |-> x.v]
      [] x.t = "tensor" -> x = [t |-> "tensor", v |-> x.v, device |-> x.device]
      [] x.t = "list" -> x = List(x.items)
      [] x.t = "tuple" -> x = Tuple(x.items)
      [] x.t = "dict" -> x = Dict(x.entries)
      [] x.t = "cache" ->
            /\ x = Cache(x.layers) /\ x.layers \in Seq(Range(x.layers))
            /\ \A layer \in Range(x.layers) :
                    layer = <<layer[1], layer[2]>> /\ layer[1].t = "tensor" /\ layer[2].t = "tensor"
      [] OTHER -> FALSE

\* No state contains itself: the methods would run into the recursion limit.
ASSUME ValueAssumption ==
    /\ MaxNesting \in Nat
    /\ \A x \in Values : Below(x)[MaxNesting + 1] = {} /\ \A y \in Parts(x) : HasShape(y)

Raise == [t |-> "raise"]
To(x, d) == IF x.t = "tensor" THEN [x EXCEPT !.device = d] ELSE Raise

\* The results for what a list, tuple or dict holds.
Each(xs, results) == [k \in DOMAIN xs |-> results[xs[k]]]

\* A container of the results xs, unless computing one of them has raised.
Whole(container, xs) == IF Raise \in Range(xs) THEN Raise ELSE container

(***************************************************************************)
(* _pack.                                                                  *)
(***************************************************************************)
\* Faulty variants: the object itself, and a tuple without its tag.
PackCacheAsIs(x) == x
PackTupleBare(items) == Tuple(items)

\* _cache_layers yields the layers whichever way the class keeps them.
PackCache(x) ==
    Tagged("dynamic_cache", "layers",
           List([j \in 1..Len(x.layers) |->
                    Pair([k \in 1..2 |-> To(x.layers[j][k], "cpu")])]))

PackTuple(items) == Tagged("tuple", "items", List(items))

PackStep(x, packed) ==
    CASE x.t = "cache" -> PackCache(x)
      [] x.t = "tensor" -> Tagged("tensor", "value", To(x, "cpu"))
      [] x.t = "dict" -> Whole(Dict(Each(x.entries, packed)), Each(x.entries, packed))
      [] x.t = "list" -> Whole(List(Each(x.items, packed)), Each(x.items, packed))
      [] x.t = "tuple" -> Whole(PackTuple(Each(x.items, packed)), Each(x.items, packed))
      [] x.t \in {"none", "number", "str"} -> x
      [] OTHER -> Raise

_pack(x) ==
    LET packed[y \in Parts(x)] == PackStep(y, packed)
    IN  packed[x]

(***************************************************************************)
(* _unpack.                                                                *)
(***************************************************************************)
Field(x, name) == IF name \in DOMAIN x.entries THEN x.entries[name] ELSE Raise

\* What a for loop takes from x: the keys of a dict, the characters of a
\* string (of one character); a number raises.
Iterated(x) ==
    CASE x.t \in {"list", "pair"} -> x.items
      [] x.t = "dict" -> [j \in 1..Cardinality(DOMAIN x.entries) |->
                            Str(SetToSeq(DOMAIN x.entries)[j])]
      [] x.t = "str" -> <<x>>
      [] OTHER -> <<Raise>>

UnpackLayer(x, d) ==
    LET pair == Iterated(x)
        moved == [k \in 1..Len(pair) |-> To(pair[k], d)]
    IN  IF Len(pair) = 2 THEN Whole(moved, moved) ELSE Raise

\* Of what a string or a dict yields, strings, _unpack makes the same.
UnpackItems(x, unpacked) ==
    IF x.t = "list" THEN Each(x.items, unpacked) ELSE Iterated(x)

UnpackCache(x, d) ==
    LET layers == Iterated(Field(x, "layers"))
        moved == [j \in 1..Len(layers) |-> UnpackLayer(layers[j], d)]
    IN  Whole(Cache(moved), moved)

\* value.get("__graphkv_kind__"), which only a dict has.
Kind(x) == IF x.t = "dict" /\ Tag \in DOMAIN x.entries THEN x.entries[Tag] ELSE Nothing

Kinds == {Str("tensor"), Str("tuple"), Str("dynamic_cache")}

UnpackStep(x, d, unpacked) ==
    CASE Kind(x) = Str("tensor") -> To(Field(x, "value"), d)
      [] Kind(x) = Str("tuple") ->
            LET items == UnpackItems(Field(x, "items"), unpacked)
            IN  Whole(Tuple(items), items)
      [] Kind(x) = Str("dynamic_cache") -> UnpackCache(x, d)
      [] x.t = "list" -> Whole(List(Each(x.items, unpacked)), Each(x.items, unpacked))
      [] x.t = "dict" /\ Kind(x) \notin Kinds ->
            Whole(Dict(Each(x.entries, unpacked)), Each(x.entries, unpacked))
      [] OTHER -> x

_unpack(x, d) ==
    LET unpacked[y \in Parts(x)] == UnpackStep(y, d, unpacked)
    IN  unpacked[x]

---------------------------------------------------------------------------
Init ==
    /\ value \in Values
    /\ device \in Devices
    /\ stage = "state"
    /\ wire = [format |-> 0, state |-> Nothing]
    /\ restored = Nothing

encode ==
    /\ stage = "state"
    /\ wire' = [format |-> FORMAT_VERSION, state |-> _pack(value)]
    /\ stage' = IF wire'.state = Raise THEN "raised" ELSE "wire"
    /\ UNCHANGED <<value, device, restored>>

\* The store holds what another release of the codec has published.
OtherRelease ==
    /\ stage = "state"
    /\ wire' = [format |-> FORMAT_VERSION + 1, state |-> Nothing]
    /\ stage' = "wire"
    /\ UNCHANGED <<value, device, restored>>

decode ==
    /\ stage = "wire"
    /\ restored' = IF wire.format = FORMAT_VERSION THEN _unpack(wire.state, device) ELSE Raise
    /\ stage' = IF restored' = Raise THEN "raised" ELSE "decoded"
    /\ UNCHANGED <<value, device, wire>>

Next ==
    \/ encode \/ OtherRelease \/ decode
    \/ stage \in {"decoded", "raised"} /\ UNCHANGED vars

Spec == Init /\ [][Next]_vars

---------------------------------------------------------------------------
(***************************************************************************)
(* Properties.                                                             *)
(***************************************************************************)
\* The same value with its tensors on a device.
MoveStep(x, d, moved) ==
    CASE x.t = "tensor" -> To(x, d)
      [] x.t = "cache" ->
            Cache([j \in 1..Len(x.layers) |-> [k \in 1..2 |-> To(x.layers[j][k], d)]])
      [] x.t = "dict" -> Dict(Each(x.entries, moved))
      [] x.t = "list" -> List(Each(x.items, moved))
      [] x.t = "tuple" -> Tuple(Each(x.items, moved))
      [] OTHER -> x

OnDevice(x, d) ==
    LET moved[y \in Parts(x)] == MoveStep(y, d, moved)
    IN  moved[x]

\* A dict of the caller's that looks like one of the codec's.
Ambiguous(x) == \E y \in Parts(x) : Kind(y) \in Kinds

\* A state comes back as it was, on the device asked for, however deep its
\* tensors, caches and tuples are nested, exactly if none of its dicts holds
\* the codec's own tag with one of its three kinds: such a dict always comes
\* back as something else, or fails to.
RoundTrip ==
    /\ stage = "decoded" => (restored = OnDevice(value, device) <=> ~Ambiguous(value))
    /\ stage = "raised" /\ wire.format = FORMAT_VERSION =>
        Ambiguous(value) \/ \E y \in Parts(value) : y.t = "other"

\* "the wire format does not depend on private Transformers classes": what
\* is stored has no cache object and no tensor of a device that the reader
\* may lack, and no value of a type that encode does not know.
WireIsPlain ==
    stage \in {"wire", "decoded"} =>
        \A y \in Parts(wire.state) :
            y.t \notin {"cache", "other"} /\ (y.t = "tensor" => y.device = "cpu")
============================================================================
