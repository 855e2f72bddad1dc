------------------------- MODULE MCClientValidation -------------------------
(***************************************************************************)
(* Instances of ClientValidation for TLC: the sign-in form, and a form of  *)
(* one field for each combination of attributes.                           *)
(***************************************************************************)
EXTENDS ClientValidation

x == "x"
MCTexts == {<<>>, <<" ">>, <<x>>, <<x, x>>, <<x, x, x>>}

Field(n, k, s, messages, params) ==
    [name |-> <<n>>, kind |-> k, slot |-> s, messages |-> messages,
     params |-> params]

Required == "required" :> "The field is required."

(* As rendered from LoginViewModel.  RememberMe has no container.          *)
Login ==
    [elements |-> <<Field("UserName", "text", "replace", Required, Nothing),
                    Field("Password", "password", "replace", Required, Nothing),
                    Field("RememberMe", "checkbox", "none", Required, Nothing)>>,
     hasSummary |-> FALSE]

(* A pattern that finds a prefix first: only <<x>> is matched as a whole.  *)
Pattern == <<x>> :> <<0, 1>> @@ <<x, x>> :> <<0, 1>> @@ <<x, x, x>> :> <<1, 1>>

MarkupOf(attribute) ==
    CASE attribute = "length.min" -> <<"length", "min">> :> 2
      [] attribute = "length.max" -> <<"length", "max">> :> 2
      [] attribute = "minlength" -> <<"minlength", "min">> :> 1
      [] attribute = "maxlength" -> <<"maxlength", "max">> :> 1
      [] attribute = "regex" -> <<"regex", "pattern">> :> Pattern

Attributes == {"length.min", "length.max", "minlength", "maxlength", "regex"}

(* All attributes of one field.  An empty message is legal.                *)
Marked(attributes, required, s) ==
    LET params == FoldSet(LAMBDA a, p : MarkupOf(a) @@ p, Nothing, attributes)
        adapters == {key[1] : key \in DOMAIN params}
    IN Field("Name", "text", s,
             [a \in adapters |-> ""] @@ When(required, Required), params)

Single ==
    {[elements |-> <<Marked(attributes, required, s)>>,
      hasSummary |-> s = "replace"] :
        attributes \in SUBSET Attributes, required \in BOOLEAN,
        s \in {"replace", "keep"}}

MCForms == {Login} \cup Single

(* RulesMeanTheMarkup speaks of every field of every form.                 *)
ASSUME \A f \in MCForms : \A e \in ToSet(f.elements) : Annotated(e)

(***************************************************************************)
(* Adapters whose rules no form above uses.                                *)
(***************************************************************************)

Confirm ==
    [name |-> <<"Input", "Confirm">>, kind |-> "password", slot |-> "replace",
     messages |-> "equalto" :> "Different.",
     params |-> <<"equalto", "other">> :> <<"*", "Password">>]

Password ==
    [name |-> <<"Input", "Password">>, kind |-> "password", slot |-> "replace",
     messages |-> "password" :> "Weak." @@ "minlength" :> "Short.",
     params |-> <<"password", "min">> :> 3
                  @@ <<"password", "nonalphamin">> :> 1
                  @@ <<"minlength", "min">> :> 1]

(* A field is compared with the one beside it in the same model, and of    *)
(* two adapters that give one rule the one registered later counts.        *)
ASSUME
    LET parsed == Parse(<<Password, Confirm>>)
        rulesOf == [n \in DOMAIN parsed |-> parsed[n].rules]
    IN /\ rulesOf[Confirm.name]["equalTo"] = {Password}
       /\ rulesOf[Password.name]["minlength"] = 3
       /\ parsed[Password.name].messages["minlength"] = "Weak."
       /\ ~Passes("nonalphamin", 1, <<x, x, x>>)
       /\ Passes("nonalphamin", 1, <<x, " ", x>>)

(* The additional fields of a remote rule are names in the same model.     *)
ASSUME
    LET e == [name |-> <<"Input", "Name">>, kind |-> "text", slot |-> "keep",
              messages |-> "remote" :> "Taken.",
              params |-> <<"remote", "url">> :> "/check"
                           @@ <<"remote", "additionalfields">> :>
                                 {<<"*", "Name">>, <<"Zone">>}]
    IN ParseElement(<<e>>, e).rules["remote"]
          = [url |-> "/check", type |-> "GET",
             data |-> {<<"Input", "Name">>, <<"Zone">>}]
=============================================================================
