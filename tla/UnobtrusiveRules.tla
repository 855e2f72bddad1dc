------------------------- MODULE UnobtrusiveRules -------------------------
(***************************************************************************)
(* jquery.validate.unobtrusive.js, the part that reads markup: from the    *)
(* data-val-* attributes of the fields of a form to the rules and the      *)
(* messages of the jQuery Validate plugin.                                 *)
(*                                                                         *)
(* A form is a sequence of elements.  An element is a record:              *)
(*   name      its name, as a sequence of segments ("A.B" is <<"A", "B">>) *)
(*   kind      "text", "password" or "checkbox"                            *)
(*   slot      its message container: "replace", "keep" (the value of      *)
(*             data-valmsg-replace) or "none"                              *)
(*   messages  adapter -> text, for each attribute data-val-<adapter>      *)
(*   params    <<adapter, parameter>> -> value, for each attribute         *)
(*             data-val-<adapter>-<parameter> that is not empty            *)
(*                                                                         *)
(* A text is a sequence of characters: "x" is a word character, " " is     *)
(* white space.                                                            *)
(***************************************************************************)
EXTENDS Integers, Sequences, SequencesExt

(* Functions stand for JavaScript objects: one without a property, one     *)
(* with the property r, and one with the properties of new and, where new  *)
(* has none, of old.                                                       *)
Nothing == <<>>
Only(r, p) == [x \in {r} |-> p]
Over(new, old) ==
    [x \in DOMAIN new \cup DOMAIN old |->
        IF x \in DOMAIN new THEN new[x] ELSE old[x]]
When(condition, object) == IF condition THEN object ELSE Nothing

(* A rule takes the value given last; an empty message is legal and leaves *)
(* the plugin's default message in force.                                  *)
SetValidationValues(set, message, new) ==
    [rules |-> Over(new, set.rules),
     messages |-> Over(When(message # "", [r \in DOMAIN new |-> message]),
                       set.messages)]

ModelPrefix(name) == Front(name)

AppendModelPrefix(value, prefix) ==
    IF Head(value) = "*" THEN prefix \o Tail(value) ELSE value

(* The registered adapters.  Those made by add carry their own name as the *)
(* way they adapt.                                                         *)
AddBool(name) ==
    [name |-> name, adapt |-> "bool", params |-> Nothing, rules |-> <<name>>]

AddMinMax(name, min, max, minMax) ==
    [name |-> name, adapt |-> "minMax", params |-> <<"min", "max">>,
     rules |-> <<min, max, minMax>>]

AddSingleVal(name, attribute, rule) ==
    [name |-> name, adapt |-> "singleVal", params |-> <<attribute>>,
     rules |-> <<rule>>]

AddOwn(name, params) ==
    [name |-> name, adapt |-> name, params |-> params, rules |-> Nothing]

(* In the order of registration.  The pages load the plugin without its    *)
(* additional methods, so that there is no method "extension".  A rule     *)
(* name that is left out in the code is "undefined".                       *)
Adapters == <<
    AddSingleVal("extension", "extension", "accept"),
    AddSingleVal("regex", "pattern", "regex"),
    AddBool("creditcard"), AddBool("date"), AddBool("digits"),
    AddBool("email"), AddBool("number"), AddBool("url"),
    AddMinMax("length", "minlength", "maxlength", "rangelength"),
    AddMinMax("range", "min", "max", "range"),
    AddMinMax("minlength", "minlength", "undefined", "undefined"),
    AddMinMax("maxlength", "minlength", "maxlength", "undefined"),
    AddOwn("equalto", <<"other">>),
    AddOwn("required", Nothing),
    AddOwn("remote", <<"url", "type", "additionalfields">>),
    AddOwn("password", <<"min", "nonalphamin", "regex">>),
    AddOwn("fileextensions", <<"extensions">>) >>

----------------------------------------------------------------------------
(* What each kind of adapter makes of the parameters it was given.         *)

(* Mutant of MinMaxRules: a minimum hides the maximum. *)
MinOnlyRules(a, given) ==
    IF "min" \in DOMAIN given THEN Only(a.rules[1], given["min"])
    ELSE When("max" \in DOMAIN given, Only(a.rules[2], given["max"]))

MinMaxRules(a, given) ==
    LET has == DOMAIN given IN
    IF {"min", "max"} \subseteq has
    THEN Only(a.rules[3], <<given["min"], given["max"]>>)
    ELSE Over(When("min" \in has, Only(a.rules[1], given["min"])),
              When("max" \in has, Only(a.rules[2], given["max"])))

SingleValRules(a, given) ==
    Only(a.rules[1], IF a.params[1] \in DOMAIN given THEN given[a.params[1]]
                                                     ELSE "undefined")

(* Mutant of RequiredRules: "and" in the place of "or". *)
RequiredOfOthers(e) ==
    When(e.kind \notin {"text", "password", "checkbox"}, Only("required", TRUE))

(* The plugin equates "required" with "mandatory" for checkboxes. *)
RequiredRules(e) == When(e.kind # "checkbox", Only("required", TRUE))

(* The field of the form that has the full name, if there is one. *)
EqualToRules(form, e, given) ==
    LET full == AppendModelPrefix(given["other"], ModelPrefix(e.name))
    IN Only("equalTo", {f \in ToSet(form) : f.name = full})

(* The names of the fields whose values are sent along. *)
RemoteRules(e, given) ==
    LET fields == IF "additionalfields" \in DOMAIN given
                  THEN given["additionalfields"] ELSE {e.name}
        type == IF "type" \in DOMAIN given THEN given["type"] ELSE "GET"
    IN Only("remote",
            [url |-> given["url"], type |-> type,
             data |-> {AppendModelPrefix(f, ModelPrefix(e.name)) :
                         f \in fields}])

PasswordRules(given) ==
    LET Rule(param, rule) ==
            When(param \in DOMAIN given, Only(rule, given[param]))
    IN Over(Rule("min", "minlength"),
            Over(Rule("nonalphamin", "nonalphamin"), Rule("regex", "regex")))

Given(e, a) ==
    [p \in {q \in ToSet(a.params) : <<a.name, q>> \in DOMAIN e.params} |->
        e.params[<<a.name, p>>]]

RulesOf(form, e, a) ==
    LET given == Given(e, a) IN
    CASE a.adapt = "bool" -> Only(a.rules[1], TRUE)
      [] a.adapt = "minMax" -> MinMaxRules(a, given)
      [] a.adapt = "singleVal" -> SingleValRules(a, given)
      [] a.adapt = "equalto" -> EqualToRules(form, e, given)
      [] a.adapt = "required" -> RequiredRules(e)
      [] a.adapt = "remote" -> RemoteRules(e, given)
      [] a.adapt = "password" -> PasswordRules(given)
      [] a.adapt = "fileextensions" -> Only("extension", given["extensions"])

(* An adapter whose attribute the element has adapts. *)
Adapt(form, e, a, set) ==
    IF a.name \in DOMAIN e.messages
    THEN SetValidationValues(set, e.messages[a.name], RulesOf(form, e, a))
    ELSE set

(* The adapters have their turns in order. *)
ParseElement(form, e) ==
    LET parsed[i \in 0 .. Len(Adapters)] ==
            IF i = 0 THEN [rules |-> Nothing, messages |-> Nothing]
            ELSE Adapt(form, e, Adapters[i], parsed[i - 1])
        result == parsed[Len(Adapters)]
    IN [rules |-> Over(Only("__dummy__", TRUE), result.rules),
        messages |-> result.messages]

(* The options of a form: of several elements with one name the last       *)
(* counts.                                                                 *)
NamesOf(form) == {e.name : e \in ToSet(form)}

ElementOf(form, n) ==
    form[CHOOSE i \in DOMAIN form :
            /\ form[i].name = n
            /\ \A j \in DOMAIN form : form[j].name = n => j <= i]

Parse(form) ==
    [n \in NamesOf(form) |-> ParseElement(form, ElementOf(form, n))]

----------------------------------------------------------------------------
(* The methods that judge a text, given the parameter of the rule.         *)

Blank(v) == \A i \in DOMAIN v : v[i] = " "

(* A pattern maps each text to its first match, <<index, length>>; a text  *)
(* without a match is not in its domain.  Only a match of all the text     *)
(* will do.                                                                *)
RegexMethod(v, pattern) == v \in DOMAIN pattern /\ pattern[v] = <<0, Len(v)>>

NonAlphaMinMethod(v, n) ==
    LET matches == SelectSeq(v, LAMBDA c : c # "x")
    IN matches # <<>> /\ Len(matches) >= n

(* An empty text passes every rule but these. *)
Mandatory == {"required", "nonalphamin"}

Passes(rule, p, v) ==
    \/ rule = "__dummy__"
    \/ v = <<>> /\ rule \notin Mandatory
    \/ rule = "required" /\ v # <<>>
    \/ rule = "minlength" /\ Len(v) >= p
    \/ rule = "maxlength" /\ Len(v) <= p
    \/ rule = "rangelength" /\ Len(v) >= p[1] /\ Len(v) <= p[2]
    \/ rule = "regex" /\ RegexMethod(v, p)
    \/ rule = "nonalphamin" /\ NonAlphaMinMethod(v, p)
=============================================================================
