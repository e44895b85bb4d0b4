------------------------------ MODULE MCCodec ------------------------------
(***************************************************************************)
(* Every value of two levels of nesting over the ones below, among them    *)
(* caches of up to two layers, a value of an unsupported type, and dicts   *)
(* with the codec's tag and each of its fields; and the benchmark's state. *)
(***************************************************************************)
EXTENDS Codec

Tensor(v, d) == [t |-> "tensor", v |-> v, device |-> d]
k == Tensor("k", "cuda")
h == Tensor("h", "cpu")

Leaves ==
    {Nothing, Str("s"), [t |-> "number", v |-> "7"], k, h, [t |-> "other"],
     Cache(<<>>), Cache(<<<<k, h>>>>), Cache(<<<<k, k>>, <<h, k>>>>)}

Flat == {List(s) : s \in BoundedSeq(Leaves, 2)} \cup {Tuple(s) : s \in BoundedSeq(Leaves, 2)}
            \cup {Dict("a" :> x) : x \in Leaves}

KindNames == {"tensor", "tuple", "dynamic_cache", "s"}
TaggedDicts ==
    {Dict(Tag :> Str(kind)) : kind \in KindNames}
    \cup {Tagged(kind, field, x) : kind \in KindNames, field \in {"value", "items", "layers"},
                                   x \in Leaves \cup Flat}
    \cup {Tagged("dynamic_cache", "layers", List(<<x>>)) : x \in Flat}

Nested == {List(<<x>>) : x \in Flat \cup TaggedDicts} \cup {Tuple(<<x, k>>) : x \in Flat}
            \cup {Dict("a" :> x) : x \in Flat \cup TaggedDicts}

BenchmarkState ==
    Dict([past_key_values |-> Cache(<<<<k, h>>>>), layout_digest |-> Str("d"), input_ids |-> k])

MCValues == Leaves \cup Flat \cup TaggedDicts \cup Nested \cup {BenchmarkState}
============================================================================
