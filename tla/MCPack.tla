------------------------------- MODULE MCPack -------------------------------
(* Five models of two MoE layers of two experts: Qwen with and without an   *)
(* lm_head, Qwen with a configuration too large for the header, and Kimi,   *)
(* whose layer 0 is dense, raw and compressed.                              *)
EXTENDS Pack

Text(prefix, names) == {[prefix |-> prefix, name |-> x] : x \in names}

Qwen(names, json) ==
  [kimi |-> FALSE, layers |-> 2, dense |-> 0, zip |-> FALSE, json |-> json,
   core |-> Text("", names)]
Kimi(zip) ==
  [kimi |-> TRUE, layers |-> 3, dense |-> 1, zip |-> zip, json |-> 1,
   core |-> Text("language_model", {"head", "embed", "router", "norm"})
            \cup Text("vision", {"norm"})]

MCModels == {Qwen({"head", "embed", "router", "norm"}, 1), Qwen({"embed", "router", "norm"}, 1),
             Qwen({"embed", "router", "norm"}, 2), Kimi(FALSE), Kimi(TRUE)}

At(l, e, part) == [layer |-> l, expert |-> e, proj |-> 1, part |-> part]

\* A whole checkpoint; one that has lost a projection of an expert of layer 1,
\* its scales, or the shape; one with an expert the configuration does not know,
\* or with experts in a dense layer.
MCDamages ==
  {[lost |-> {}, extra |-> {}]}
  \cup {[lost |-> {At(1, 1, p)}, extra |-> {}] : p \in {"weight", "packed", "scale", "shape"}}
  \cup {[lost |-> {}, extra |-> {t}] : t \in {At(1, 2, "weight"), At(0, 0, "packed")}}
=============================================================================
