--------------------------- MODULE MCDriftDetection ---------------------------
(* Two resources, and configurations of a Lambda function that differ in    *)
(* every way the comparison tells apart: in a scalar, in the order, the     *)
(* elements and the length of a list, in kind, in a nested key, in an       *)
(* ignored key, and in a key that only one of them has.                     *)
EXTENDS DriftDetection, TLC

Scalar(v) == [kind |-> "scalar", data |-> v]
List(l) == [kind |-> "list", data |-> l]
Records(l) == [kind |-> "records", data |-> l]
Dict(d) == [kind |-> "dict", data |-> d]

MCKeys == {"role_arn", "layers", "environment", "last_modified"}
MCIgnored == {"last_modified"}
MCSeverity == [k \in MCKeys |-> CASE k = "role_arn" -> "critical"
                                  [] k = "layers" -> "high"
                                  [] OTHER -> "medium"]

Env(d) == "environment" :> Dict(d)
MCConfigs == {
  "role_arn" :> Scalar("a") @@ "layers" :> List(<<"x", "y">>)
    @@ Env("role_arn" :> Scalar("a")),
  "role_arn" :> Scalar("a") @@ "layers" :> List(<<"y", "x">>)
    @@ Env("role_arn" :> Scalar("a") @@ "last_modified" :> Scalar("t"))
    @@ "last_modified" :> Scalar("t"),
  "role_arn" :> Scalar("b") @@ "layers" :> List(<<"x", "z">>)
    @@ Env("role_arn" :> Scalar("a")),
  "role_arn" :> Scalar("a") @@ "layers" :> Records(<<"x", "y">>)
    @@ Env("role_arn" :> Scalar("b")),
  "role_arn" :> Scalar("a") @@ "layers" :> List(<<"x", "y", "y">>),
  "layers" :> List(<<"x", "y">>) @@ "environment" :> Scalar("a")}

Symmetry == Permutations(Resources)

=============================================================================
