---------------------------- MODULE FieldValues ----------------------------
(***************************************************************************)
(* How the types package completes and validates the fields of a node      *)
(* (types/types.go, types/capability.go).  The fields of a node are a      *)
(* function from the names that are present to their values; a value is a  *)
(* string for a scalar field and a node id for a reference.                *)
(***************************************************************************)
EXTENDS Integers, Functions

CONSTANTS
    Type,      \* names of the loaded types
    FieldDef,  \* FieldDef[type][name]: the fields a type declares
    Nil,       \* null in a patch, and the default of a field without one
    Bad        \* a value that the field's kind refuses

(***************************************************************************)
(* A FieldDef has the attributes kind ("text" or "ref"), to (the type a    *)
(* reference points at), required, immutable and default.                  *)
(***************************************************************************)
ASSUME FieldDefAssumption ==
    /\ DOMAIN FieldDef = Type
    /\ \A t \in Type : \A name \in DOMAIN FieldDef[t] :
         LET f == FieldDef[t][name]
         IN  /\ f.kind \in {"text", "ref"}
             /\ f.required \in BOOLEAN /\ f.immutable \in BOOLEAN
             /\ f.kind = "ref" => f.to \in Type /\ f.default = Nil

FieldNames(t) == DOMAIN FieldDef[t]

\* isEmpty: the empty text; a reference is never empty when it is present.
IsEmpty(f, v) == f.kind = "text" /\ v = ""

\* ApplyDefaults: only the fields that a create leaves out.
ApplyDefaults(t, fields) ==
    LET missing == {n \in FieldNames(t) \ DOMAIN fields : FieldDef[t][n].default # Nil}
    IN  [n \in DOMAIN fields \cup missing |->
            IF n \in missing THEN FieldDef[t][n].default ELSE fields[n]]

\* ValidateFields: known names, values of the right kind, nothing required
\* missing.
ValidateFields(t, fields) ==
    /\ DOMAIN fields \subseteq FieldNames(t)
    /\ \A n \in DOMAIN fields : fields[n] \notin {Bad, Nil}
    /\ \A n \in FieldNames(t) :
         FieldDef[t][n].required =>
            n \in DOMAIN fields /\ ~ IsEmpty(FieldDef[t][n], fields[n])

\* Slip: a required field may be patched away.
ValidatePatchValues(t, patch) ==
    /\ DOMAIN patch \subseteq FieldNames(t)
    /\ \A n \in DOMAIN patch :
         LET f == FieldDef[t][n]
         IN  /\ ~ f.immutable
             /\ patch[n] # Bad
             /\ f.required /\ patch[n] # Nil => ~ IsEmpty(f, patch[n])

\* ValidatePatchFields: nil clears a field, unless the field is required.
ValidatePatchFields(t, patch) ==
    /\ DOMAIN patch \subseteq FieldNames(t)
    /\ \A n \in DOMAIN patch :
         LET f == FieldDef[t][n]
         IN  /\ ~ f.immutable
             /\ patch[n] # Bad
             /\ f.required => patch[n] # Nil /\ ~ IsEmpty(f, patch[n])

\* json_patch on the scalars, and the edges of the references replaced.
Merged(fields, patch) ==
    LET kept == (DOMAIN fields \cup DOMAIN patch)
                    \ {n \in DOMAIN patch : patch[n] = Nil}
    IN  [n \in kept |-> IF n \in DOMAIN patch THEN patch[n] ELSE fields[n]]
=============================================================================
