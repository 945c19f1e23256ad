----------------------------- MODULE OpJourney -----------------------------
(***************************************************************************)
(* One operation on its way through the compiler, from the representation  *)
(* it enters to the instructions of the package: converted SIR to AIR to   *)
(* MIR, made legal, converted to the protobuf layer, its weights           *)
(* materialised, checked by the gates, and emitted.                        *)
(*                                                                         *)
(* What is around the operation is chosen at the start and stays: where    *)
(* each operand comes from, which weights the resolver knows, whether      *)
(* missing weights are allowed, whether the function also reads the state  *)
(* the operation names, and whether every dimension is known. The operands *)
(* of a list stand for one, and an operation carries its operands by name. *)
(***************************************************************************)
EXTENDS OpConvert, ProtoEmit, ProtoOps, Naturals

CONSTANTS
    Entries     \* the representations an operation may enter at

ASSUME EntriesAssumption == Entries \subseteq {"sir", "air", "mir"}

VARIABLES
    stage,      \* the representation the operation is in
    op,         \* its kind and the name each operand refers to
    env,        \* what is around it, see Surroundings
    consts,     \* the constants of the function: name to "data" or "zeros"
    out         \* the instructions emitted
vars == <<stage, op, env, consts, out>>

----
\* Names. A node operand names an operation or the embedding table; a weight
\* and a state are named by strings of their own.
Value(role) == <<"value", role>>
Weight(role) == <<"weight", role>>
Own(suffix) == <<"own", suffix>>
proto_output_name == Own("")
State == <<"state", "state">>
Embedding == <<"alias", "embed_weight_embed_tokens">>
EmbedTokens == Weight("model.embed_tokens.weight")

StateFields == {"state_id", "state_ref"}

----
\* Where operations enter. Nothing makes a selection in AIR.
Schema ==
    [sir |-> [k \in DOMAIN SirOps \ RewrittenBefore |-> SirOps[k]],
     air |-> [k \in DOMAIN AirOps \ {"Select", "Where"} |-> AirOps[k]],
     mir |-> MirOps]

Sources(kind) ==
    {"value", "const", "embedding"} \cup (IF kind = "Identity" THEN {"placeholder"} ELSE {})

Surroundings(entry, kind, operands) ==
    LET nodes == operands \cap Schema[entry][kind].nodes
        weights == {Weight(f) : f \in (operands \cap Schema[entry][kind].names) \ StateFields}
    IN  UNION {[entry : {entry}, kind : {kind}, operands : {operands}, from : {from},
                known : SUBSET (weights \cup {Value(f) : f \in {g \in nodes : from[g] = "const"}}
                                        \cup {EmbedTokens : f \in {g \in nodes : from[g] = "embedding"}}),
                allow_missing_weights : BOOLEAN,
                read : IF operands \cap StateFields = {} THEN {FALSE} ELSE BOOLEAN,
                shaped : IF kind \in {"Reshape", "Concat"} THEN BOOLEAN ELSE {TRUE}] :
               from \in [nodes -> Sources(kind)]}

NameOf(field) ==
    IF field \in DOMAIN env.from
    THEN IF env.from[field] = "embedding" THEN Embedding ELSE Value(field)
    ELSE IF field \in StateFields THEN State ELSE Weight(field)

\* Names the surroundings define: inputs and earlier operations, states, and
\* the constants, whose bytes are zeros when the resolver does not know them.
Values == {Value(f) : f \in {g \in DOMAIN env.from : env.from[g] = "value"}}
ConstNodes == {Value(f) : f \in {g \in DOMAIN env.from : env.from[g] = "const"}}
States == IF env.read \/ op.kind = "ReadState" THEN {State} ELSE {}
Resolved(path) == IF path \in env.known THEN "data" ELSE "zeros"

Init ==
    /\ stage \in Entries
    /\ \E kind \in DOMAIN Schema[stage] : \E absent \in SUBSET Schema[stage][kind].opt :
          env \in Surroundings(stage, kind, Operand(Schema[stage][kind]) \ absent)
    /\ op = [kind |-> env.kind, arg |-> [f \in env.operands |-> NameOf(f)]]
    /\ consts = <<>>
    /\ out = <<>>

----
\* An operation converted by a row of a table: operands it lacks stay away.
Converted(o, table) ==
    LET row == table[o.kind]
        kept == {f \in DOMAIN row.from : row.from[f] \in DOMAIN o.arg \cup {MadeUp}}
    IN  [kind |-> row.to,
         arg |-> [f \in kept |-> IF row.from[f] = MadeUp THEN Weight(MadeUp)
                                                       ELSE o.arg[row.from[f]]]]

ToAir ==
    /\ stage = "sir" /\ stage' = "air"
    /\ op' = Converted(op, Passthrough)
    /\ UNCHANGED <<env, consts, out>>

\* A kind that shape inference has no rule for stops the lowering, once the
\* operation is converted.
Rules == INSTANCE ShapeRules
ToMir ==
    /\ stage = "air"
    /\ stage' = IF op.kind \in Rules!AirShaped THEN "lowered" ELSE "unshaped"
    /\ op' = Converted(op, Lowering)
    /\ UNCHANGED <<env, consts, out>>

\* Dense layers become convolutions; normalisations, and attentions of known
\* head counts, are taken apart into primitives.
Legalise ==
    /\ stage = "lowered"
    /\ CASE op.kind = "Linear" -> stage' = "mir" /\ op' = Converted(op, Convolved)
         [] op.kind = "LayerNorm" -> stage' = "decomposed" /\ UNCHANGED op
         [] op.kind = "ScaledDotProductAttention" -> stage' \in {"mir", "decomposed"} /\ UNCHANGED op
         [] OTHER -> stage' = "mir" /\ UNCHANGED op
    /\ UNCHANGED <<env, consts, out>>

----
\* The embedding table is referred to by its name in the checkpoint.
Remapped(arg) == [f \in DOMAIN arg |-> IF arg[f] = Embedding THEN EmbedTokens ELSE arg[f]]

IsGraphInput == op.kind = "Identity" /\ env.from = [f \in env.operands |-> "placeholder"]

\* The names an operation that is not supported remembers: not its sub-graphs.
SubGraphs == {"true_graph", "false_graph", "body"}
    \cup (IF op.kind = "WhileLoop" THEN {"condition"} ELSE {})
InputRefs == [f \in DOMAIN op.arg \ SubGraphs |-> op.arg[f]]

\* The operation of the protobuf layer one MIR operation becomes.
CompatOp ==
    IF IsGraphInput THEN [kind |-> "Placeholder", arg |-> <<>>]
    ELSE IF op.kind \in DOMAIN Compat THEN Converted(op, Compat)
    ELSE [kind |-> "Unsupported", arg |-> InputRefs]

ConstBytes ==
    [n \in ConstNodes |-> Resolved(n)]
        @@ (IF op.kind # "Const" THEN <<>>
            ELSE proto_output_name :> Resolved(op.arg.value_path))

ToCompat ==
    /\ stage = "mir"
    /\ IF op.kind = "Reshape" /\ ~env.shaped
       THEN stage' = "rejected" /\ UNCHANGED <<op, consts>>
       ELSE /\ stage' = IF op.kind \in Impossible \ DOMAIN Compat THEN "panicked" ELSE "compat"
            /\ op' = [CompatOp EXCEPT !.arg = Remapped(@)]
            /\ consts' = ConstBytes
    /\ UNCHANGED <<env, out>>

----
\* The names an operation reads: all it holds.
InputNames == {op.arg[f] : f \in DOMAIN op.arg}

\* Weights to materialise: those of a dense layer and of a normalisation in
\* any case, every other name that is no value if the resolver knows it. (A
\* missing name under static_tables/ is passed over; dense layers and
\* normalisations, the only ones to ask for a missing name, have none there.)
weights_of_layers_only == {op.arg[f] : f \in DOMAIN op.arg \cap {"weight_name", "bias_name"}}
ReferencedWeights ==
    {op.arg[f] : f \in DOMAIN op.arg \cap {"weight_name", "bias_name"}}
    \cup (InputNames \cap env.known)

missing_required == {op.arg[f] : f \in DOMAIN op.arg \cap {"weight_name"}} \ (env.known \cup DOMAIN consts)
Missing == ReferencedWeights \ (env.known \cup DOMAIN consts)

Materialise ==
    /\ stage = "compat"
    /\ IF Missing # {} /\ ~env.allow_missing_weights
       THEN stage' = "rejected" /\ UNCHANGED consts
       ELSE /\ stage' = "complete"
            /\ consts' = consts @@ [w \in ReferencedWeights |-> Resolved(w)]
    /\ UNCHANGED <<op, env, out>>

----
\* The gates of the conversion to protobuf.
WritesUnreadState == op.kind \in {"CoremlUpdateState", "StateWrite"} /\ ~env.read
ScalarConcat == op.kind = "Concat" /\ ~env.shaped

Gate ==
    /\ stage = "complete"
    /\ stage' = IF \/ op.kind = "Unsupported"
                   \/ op.kind \in IllegalKinds
                   \/ ScalarConcat
                   \/ WritesUnreadState
                THEN "rejected" ELSE "accepted"
    /\ UNCHANGED <<op, env, consts, out>>

OwnSuffixes(table) == {""} \cup {table[op.kind][i].out : i \in DOMAIN table[op.kind]}

\* An argument is the name an operand holds, or a value of the operation.
Bound(instr, table) ==
    LET bound == {a \in DOMAIN instr.args :
                     instr.args[a] \in DOMAIN op.arg \cup OwnSuffixes(table)}
    IN  [type |-> instr.type,
         args |-> [a \in bound |-> IF instr.args[a] \in DOMAIN op.arg
                                   THEN op.arg[instr.args[a]] ELSE Own(instr.args[a])],
         out |-> Own(instr.out)]

\* Paths of weights have dots, which an identifier of the message must not have.
\* The names of one function differ in more than that.
sanitize_mil_ident(name) == IF name[1] = "weight" THEN <<"ident", name[2]>> ELSE name
Sanitized(instr) ==
    [instr EXCEPT !.args = [a \in DOMAIN @ |-> sanitize_mil_ident(@[a])],
                  !.out = sanitize_mil_ident(@)]

\* Three checks of the instructions may refuse the function. A filling has a
\* value to compare; of the operands of a product or an elementwise operation
\* they see the type only if both are immediate values, which have no row in
\* the table.
BothImmediate(instr) == {"x", "y"} \cap DOMAIN instr.args = {}
Elementwise ==
    {"mul", "add", "Mul", "Add", "Sub", "RealDiv", "Maximum", "Minimum", "Pow", "FloorDiv", "Mod",
     "Equal", "NotEqual", "Greater", "GreaterEqual", "Less", "LessEqual", "LogicalAnd", "LogicalOr"}
FillCompared(instr) == instr.type \in {"fill", "fill_like"}
BroadcastCompared(instr) == instr.type \in Elementwise /\ BothImmediate(instr)
ProductCompared(instr) == instr.type = "MatMul" /\ BothImmediate(instr)
Compared(instr) == FillCompared(instr) \/ BroadcastCompared(instr) \/ ProductCompared(instr)

Emit ==
    /\ stage = "accepted"
    /\ LET instrs == [i \in DOMAIN Emission[op.kind] |-> Bound(Emission[op.kind][i], Emission)]
       IN  \/ stage' = "done" /\ out' = [i \in DOMAIN instrs |-> Sanitized(instrs[i])]
           \/ /\ \E i \in DOMAIN instrs : Compared(instrs[i])
              /\ stage' = "rejected" /\ UNCHANGED out
    /\ UNCHANGED <<op, env, consts>>

\* The older message format.
EmitLegacy ==
    /\ stage = "accepted" /\ stage' = "legacy"
    /\ out' = [i \in DOMAIN Legacy[op.kind] |-> Bound(Legacy[op.kind][i], Legacy)]
    /\ UNCHANGED <<op, env, consts>>

Next ==
    ToAir \/ ToMir \/ Legalise \/ ToCompat \/ Materialise \/ Gate \/ Emit \/ EmitLegacy

Spec == Init /\ [][Next]_vars

\* The kinds the MIR declares the protobuf layer can take.
is_proto_supported ==
    {"Const", "Linear", "MatMul", "Conv", "Add", "Mul", "Sub", "Maximum", "Minimum", "RealDiv",
     "FloorDiv", "Mod", "Pow", "Equal", "NotEqual", "Greater", "GreaterEqual", "Less",
     "LessEqual", "LogicalAnd", "LogicalOr", "LogicalNot", "Abs", "Neg", "Sigmoid", "Tanh",
     "Relu", "LeakyRelu", "Silu", "Gelu", "Clip", "Sqrt", "Rsqrt", "Ceil", "Floor", "Round",
     "Exp", "Log", "Sign", "Cos", "Sin", "Cast", "Select", "Where", "Softmax", "ReduceSum",
     "ReduceMean", "ReduceMax", "ReduceMin", "ReduceProd", "LayerNorm", "Reshape",
     "Transpose", "Split", "Concat", "ExpandDims", "Squeeze", "SliceByIndex", "SliceUpdate",
     "Pad", "Tile", "Fill", "FillLike", "Identity", "Gather", "Topk",
     "ScaledDotProductAttention", "ReadState", "CoremlUpdateState", "StateWrite"}
    \cup DOMAIN MirConstexpr

----
\* Before and behind every conversion an operation has the operands its kind
\* asks for, and no other.
Shaped(schema) ==
    /\ op.kind \in DOMAIN schema
    /\ DOMAIN op.arg \subseteq Operand(schema[op.kind])
    /\ Operand(schema[op.kind]) \ schema[op.kind].opt \subseteq DOMAIN op.arg

TypeOK ==
    /\ stage \in {"sir", "air", "lowered", "mir", "compat", "complete", "accepted", "done",
                  "legacy", "decomposed", "unshaped", "rejected", "panicked"}
    /\ \A n \in DOMAIN consts : consts[n] \in {"data", "zeros"}
    /\ stage = "sir" => Shaped(SirOps)
    /\ stage = "air" => Shaped(AirOps)
    /\ stage \in {"lowered", "mir", "decomposed", "unshaped"} => Shaped(MirOps)
    /\ stage \in {"compat", "complete"} => op.kind = "Unsupported" \/ Shaped(MirOpCompat)
    /\ stage \in {"accepted", "done", "legacy"} => Shaped(MirOpCompat)

\* The argument names under which an operand may be read at the end.
Arguments(field) ==
    CASE field \in {"input", "a", "ref_tensor"} -> {"x"}
      [] field = "x" -> {"x", "a"}
      [] field = "y" -> {"y", "b"}
      [] field = "b" -> {"y"}
      [] field = "inputs" -> {"values"}
      [] field = "condition" -> {"cond", "condition"}
      [] field = "attention_mask" -> {"attn_mask"}
      [] field = "weight" -> {"weight", "gamma"}
      [] field = "bias" -> {"bias", "beta"}
      [] field \in StateFields -> {"input", "state", field}
      [] OTHER -> {field}

\* AnecScaledElementwise reads its second operand in a product of its own.
Reads(field, name) ==
    \E i \in DOMAIN out : \E a \in DOMAIN out[i].args :
        /\ out[i].args[a] = name
        /\ a \in Arguments(field) \/ env.kind = "AnecScaledElementwise"

Emitted ==
    \/ stage = "done" /\ op.kind \notin Unwritten \cup {"Const", "Placeholder"}
    \/ stage = "legacy" /\ op.kind \in DOMAIN Messages \ {"Const"}

\* A name as the messages have it: the older format keeps it.
Identifier(name) == IF stage = "done" THEN sanitize_mil_ident(name) ELSE name

Dropped == IF env.entry = "air" /\ env.kind = "Linear" THEN {"bias"} ELSE {}

(* Through four tables of conversions and two of instructions, every operand
   an operation came with is read at the end, under the argument that plays
   its part: none is lost or exchanged for another. It is stated of the kinds
   whose instructions the tables hold: not of those the emitter has no
   instruction for (Unwritten), of constants and graph inputs, and in the older
   format of the kinds it has messages for. AnecScaledElementwise may read an
   operand under any argument, and the bias of a dense layer that became a
   convolution is known to be lost.                                          *)
OperandsReachTheirArgument ==
    Emitted =>
        \A f \in env.operands \ Dropped :
            Reads(f, Identifier(IF NameOf(f) = Embedding THEN EmbedTokens ELSE NameOf(f)))

(* When the resolver knows every weight, every instruction reads names that
   an input, a state, a constant or an earlier instruction defines, no name
   is defined twice, and the result has the name of the operation.           *)
EverythingKnown ==
    /\ \A f \in env.operands : NameOf(f)[1] = "weight" => NameOf(f) \in env.known
    /\ \A f \in DOMAIN env.from : env.from[f] = "embedding" => EmbedTokens \in env.known
ProgramIsClosed ==
    Emitted /\ EverythingKnown =>
        /\ \A i \in DOMAIN out : \A a \in DOMAIN out[i].args :
              \/ out[i].args[a] \in {Identifier(n) : n \in Values \cup States \cup DOMAIN consts}
              \/ \E j \in 1..i - 1 : out[j].out = out[i].args[a]
        /\ \A i, j \in DOMAIN out : out[i].out = out[j].out => i = j
        /\ out[Len(out)].out = Own("")

\* Constants are zeros when their own path is not known, with the option or
\* without it, against the contract of mir_graph_to_compat_with_arch; a filling
\* becomes a constant of a path that no resolver knows, whatever its value.
OwnPath == IF env.kind = "Fill" THEN Weight(MadeUp) ELSE Weight("value_path")
UnresolvedConsts ==
    {n \in ConstNodes : n \notin env.known}
        \cup {n \in {proto_output_name} : op.kind = "Const" /\ OwnPath \notin env.known}

(* Without the option to allow missing weights, a function that passes the
   gates has zeros in place of no weight, save in constants whose own path is
   not known, and a dense layer or a normalisation has all its weights. Other
   operations may name a weight that is defined nowhere.                     *)
NoSilentZeros ==
    stage \in {"accepted", "done", "legacy"} /\ ~env.allow_missing_weights =>
        /\ \A n \in DOMAIN consts : consts[n] = "zeros" => n \in UnresolvedConsts
        /\ op.kind \in {"Linear", "LayerNorm"} =>
              \A f \in DOMAIN op.arg \cap {"weight_name", "bias_name"} : op.arg[f] \in env.known

(* A kind the MIR promises the protobuf layer can take is not turned away as
   unsupported, no conversion panics, and the two conversions to that layer
   make the same of it.                                                      *)
SupportedIsEmitted ==
    /\ stage # "panicked"
    /\ op.kind = "Unsupported" => env.kind \notin is_proto_supported
    /\ stage = "mir" /\ op.kind \in (DOMAIN Compat \cup DOMAIN Unify) \ OnlyEmitted =>
          /\ op.kind \in DOMAIN Compat \cap DOMAIN Unify
          /\ Converted(op, Compat) = Converted(op, Unify)
=============================================================================
