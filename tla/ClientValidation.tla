------------------------- MODULE ClientValidation -------------------------
(***************************************************************************)
(* The life of a form in the browser under jquery.validate.unobtrusive.js, *)
(* as the sign-in page runs it (Views/Account/Login.cshtml), and the       *)
(* server that answers it (AccountController.Login).                       *)
(*                                                                         *)
(* An event and everything its handlers do is one action: the scripts of a *)
(* page are not interrupted.  The jQuery Validate plugin below the library *)
(* is modelled as far as the library's options make it act.                *)
(***************************************************************************)
EXTENDS UnobtrusiveRules

CONSTANTS
    Forms,  \* the forms tried: [elements : a form, hasSummary : BOOLEAN]
    Texts   \* what can be entered in a field

ASSUME TextsAssumption == <<>> \in Texts

VARIABLES
    form,       \* the form of the page
    phase,      \* of the page: "loading", "ready", "sent" or "left"
    value,      \* the text in each field
    default,    \* the text that each field was rendered with
    options,    \* the settings of the plugin; Nothing until it is attached
    submitted,  \* names in the plugin's object "submitted"
    invalid,    \* names in the plugin's object "invalid"
    container,  \* the class and the message of each field's container
    summary,    \* the class of the summary and the fields it lists
    judged,     \* history: "fresh" if the field is as it was last judged
    isReset     \* history: the form was reset since the page was loaded

plugin == <<options, submitted, invalid>>
shown == <<container, summary>>
vars == <<form, phase, value, default, plugin, shown, judged, isReset>>

Fields == NamesOf(form.elements)
Element(n) == ElementOf(form.elements, n)
TextFields == {n \in Fields : Element(n).kind # "checkbox"}

Classes == {"valid", "error"}
Messages == {"", "label", "server"}

TypeOK ==
    /\ form \in Forms
    /\ phase \in {"loading", "ready", "sent", "left"}
    /\ value \in [Fields -> Texts]
    /\ default \in [Fields -> Texts]
    /\ submitted \subseteq Fields
    /\ invalid \subseteq Fields
    /\ container \in [Fields -> [class : Classes, message : Messages]]
    /\ summary \in [class : Classes, lists : SUBSET Fields]
    /\ judged \in [Fields -> {"none", "fresh", "stale"}]
    /\ isReset \in BOOLEAN

Valid(n, v) ==
    \A r \in DOMAIN options[n].rules : Passes(r, options[n].rules[r], v)

(***************************************************************************)
(* What is shown.                                                          *)
(***************************************************************************)

(* Mutant of OnError: the class of the container stays. *)
OnErrorMessageOnly(n, c, message) ==
    [c EXCEPT !.message = IF Element(n).slot = "replace" THEN message ELSE @]

(* errorPlacement of a new error label. *)
OnError(n, c, message) ==
    [class |-> "error",
     message |-> IF Element(n).slot = "replace" THEN message ELSE c.message]

OnSuccess(n, c) ==
    [class |-> "valid",
     message |-> IF Element(n).slot = "replace" THEN "" ELSE c.message]

(* The plugin never finds a label again, for onError takes its class away  *)
(* or hides it: each verdict makes a new label, that of a valid field is   *)
(* empty, is placed as an error and only then reported as a success.       *)
ShowLabel(n, v) ==
    LET c == container[n] IN
    IF Element(n).slot = "none" THEN c
    ELSE IF Valid(n, v) THEN OnSuccess(n, OnError(n, c, ""))
    ELSE OnError(n, c, "label")

(* The fields N, with these values, are judged and the verdicts are shown. *)
Judge(N, values) ==
    /\ container' = [n \in Fields |->
                        IF n \in N THEN ShowLabel(n, values[n])
                                   ELSE container[n]]
    /\ judged' = [n \in Fields |-> IF n \in N THEN "fresh" ELSE judged[n]]

(* invalidHandler: the summary of a form that has one lists the errors.    *)
OnErrors(failing) ==
    summary' = IF form.hasSummary /\ failing # {}
               THEN [class |-> "error", lists |-> failing]
               ELSE summary

----------------------------------------------------------------------------
(* A page as the server renders it: a field is empty or, in a page that is *)
(* an answer, holds what was sent unless it is a password.                 *)

Render(texts, refused) ==
    /\ phase' = "loading"
    /\ value' = texts
    /\ default' = texts
    /\ options' = Nothing
    /\ submitted' = {}
    /\ invalid' = {}
    /\ container' = [n \in Fields |->
                        IF n \in refused /\ Element(n).slot # "none"
                        THEN [class |-> "error", message |-> "server"]
                        ELSE [class |-> "valid", message |-> ""]]
    /\ summary' = IF form.hasSummary /\ refused # {}
                  THEN [class |-> "error", lists |-> refused]
                  ELSE [class |-> "valid", lists |-> {}]
    /\ judged' = [n \in Fields |-> "none"]
    /\ isReset' = FALSE

Init ==
    /\ form \in Forms
    /\ phase = "loading"
    /\ value = [n \in Fields |-> <<>>]
    /\ default = value
    /\ options = Nothing
    /\ submitted = {}
    /\ invalid = {}
    /\ container = [n \in Fields |-> [class |-> "valid", message |-> ""]]
    /\ summary = [class |-> "valid", lists |-> {}]
    /\ judged = [n \in Fields |-> "none"]
    /\ isReset = FALSE

(* The document is ready: parse(document), then attachValidation.          *)
Ready ==
    /\ phase = "loading"
    /\ phase' = "ready"
    /\ options' = Parse(form.elements)
    /\ UNCHANGED <<form, value, default, submitted, invalid, shown, judged,
                   isReset>>

----------------------------------------------------------------------------
(* Events of the page.                                                     *)

Open == phase \in {"loading", "ready"}

(* A text gets into the field without a keyup event there, or before the   *)
(* handlers are attached.                                                  *)
Paste(n, v) ==
    /\ Open
    /\ v # value[n]
    /\ value' = [value EXCEPT ![n] = v]
    /\ judged' = [judged EXCEPT ![n] = IF @ = "none" THEN @ ELSE "stale"]
    /\ UNCHANGED <<form, phase, default, plugin, shown, isReset>>

(* The plugin's element(): one field is judged. *)
JudgeOne(n, values) ==
    /\ Judge({n}, values)
    /\ invalid' = invalid \cup {n}
    /\ submitted' = IF Valid(n, values[n]) THEN submitted
                                           ELSE submitted \cup {n}

(* onkeyup: a field is judged as one types once it has been judged.        *)
Type(n, v) ==
    /\ phase = "ready"
    /\ v # value[n]
    /\ n \in submitted \cup invalid
    /\ value' = [value EXCEPT ![n] = v]
    /\ JudgeOne(n, value')
    /\ UNCHANGED <<form, phase, default, options, summary, isReset>>

(* onfocusout: an empty field is not judged before the first submit.       *)
FocusOut(n) ==
    /\ phase = "ready"
    /\ n \in submitted \/ value[n] # <<>>
    /\ JudgeOne(n, value)
    /\ UNCHANGED <<form, phase, value, default, options, summary, isReset>>

(* The plugin's form(): every field is judged; the form is sent if all are *)
(* valid.                                                                  *)
Submit ==
    LET failing == {n \in Fields : ~Valid(n, value[n])} IN
    /\ phase = "ready"
    /\ Judge(Fields, value)
    /\ submitted' = submitted \cup failing
    /\ invalid' = failing
    /\ OnErrors(failing)
    /\ phase' = IF failing = {} THEN "sent" ELSE "ready"
    /\ UNCHANGED <<form, value, default, options, isReset>>

SubmitUnchecked ==
    /\ phase = "loading"
    /\ phase' = "sent"
    /\ UNCHANGED <<form, value, default, plugin, shown, judged, isReset>>

(* Mutant of ResetForm: the plugin's resetForm is not called. *)
KeepForm == UNCHANGED <<submitted, invalid>>

ResetForm == submitted' = {} /\ invalid' = {}

(* onReset, then the browser restores the texts.  The classes are taken    *)
(* back, the messages stay in their containers.                            *)
Reset ==
    /\ phase = "ready"
    /\ ResetForm
    /\ container' = [n \in Fields |-> [container[n] EXCEPT !.class = "valid"]]
    /\ summary' = [summary EXCEPT !.class = "valid"]
    /\ value' = default
    /\ judged' = [n \in Fields |-> "none"]
    /\ isReset' = TRUE
    /\ UNCHANGED <<form, phase, default, options>>

----------------------------------------------------------------------------
(* AccountController.Login.                                                *)

(* [Required] refuses a text of white space, too.  A checkbox always has a *)
(* value: the page sends "false" along with it.                            *)
Refused ==
    {n \in TextFields : /\ "required" \in DOMAIN Element(n).messages
                        /\ Blank(value[n])}

Answer(refused) ==
    /\ Render([n \in Fields |-> IF Element(n).kind = "password" THEN <<>>
                                                               ELSE value[n]],
              refused)
    /\ UNCHANGED form

RefuseFields == phase = "sent" /\ Refused # {} /\ Answer(Refused)

RefuseCredentials == phase = "sent" /\ Refused = {} /\ Answer({})

SignIn ==
    /\ phase = "sent"
    /\ Refused = {}
    /\ phase' = "left"
    /\ UNCHANGED <<form, value, default, plugin, shown, judged, isReset>>

----------------------------------------------------------------------------
Next ==
    \/ Ready
    \/ \E n \in TextFields, v \in Texts : Paste(n, v)
    \/ \E n \in TextFields, v \in Texts : Type(n, v)
    \/ \E n \in TextFields : FocusOut(n)
    \/ Submit
    \/ SubmitUnchecked
    \/ Reset
    \/ RefuseFields
    \/ RefuseCredentials
    \/ SignIn

Spec == Init /\ [][Next]_vars
----------------------------------------------------------------------------
(* What the container of a field says is the verdict of the plugin on the  *)
(* text that stands in the field, however the verdict came about (submit,  *)
(* leaving the field, typing; after a reset or a page that came back with  *)
(* errors), as long as the text was not changed behind the handlers' back. *)
VerdictsAreShown ==
    \A n \in Fields :
       phase = "ready" /\ judged[n] = "fresh" /\ Element(n).slot # "none"
          => IF Valid(n, value[n])
             THEN container[n].class = "valid"
             ELSE /\ container[n].class = "error"
                  /\ Element(n).slot = "replace"
                        => container[n].message = "label"

(* A reset makes the page forget: until a field is judged again nothing is *)
(* marked as an error, and typing into it is not judged.                   *)
ResetForgets ==
    isReset => \A n \in Fields :
                  judged[n] = "none" => /\ container[n].class = "valid"
                                        /\ n \notin submitted \cup invalid

(* What the attributes of an element say about a text, as written by       *)
(* ASP.NET Core for [Required], [StringLength], [MinLength], [MaxLength]   *)
(* and [RegularExpression].                                                *)
Demanded(e, v) ==
    /\ "required" \in DOMAIN e.messages /\ e.kind # "checkbox" => v # <<>>
    /\ v # <<>> =>
          \A a \in DOMAIN e.messages :
             /\ <<a, "min">> \in DOMAIN e.params
                   => Len(v) >= e.params[<<a, "min">>]
             /\ <<a, "max">> \in DOMAIN e.params
                   => Len(v) <= e.params[<<a, "max">>]
             /\ <<a, "pattern">> \in DOMAIN e.params
                   => RegexMethod(v, e.params[<<a, "pattern">>])

(* The attributes that ASP.NET Core writes for them: no parameter but      *)
(* these, and never a data-val-regex without its pattern.                  *)
Annotated(e) ==
    /\ DOMAIN e.messages
          \subseteq {"required", "length", "minlength", "maxlength", "regex"}
    /\ DOMAIN e.params
          \subseteq {<<"length", "min">>, <<"length", "max">>,
                     <<"minlength", "min">>, <<"maxlength", "max">>,
                     <<"regex", "pattern">>}
    /\ "regex" \in DOMAIN e.messages
          => <<"regex", "pattern">> \in DOMAIN e.params

(* No two attributes of the element make one rule: of those, only the one  *)
(* whose adapter was registered last counts.                               *)
Unambiguous(e) ==
    \A a, b \in {c \in ToSet(Adapters) : c.name \in DOMAIN e.messages} :
       a # b => DOMAIN RulesOf(form.elements, e, a)
                   \cap DOMAIN RulesOf(form.elements, e, b) = {}

(* The rules that the adapters hand to the plugin accept exactly what the  *)
(* attributes of the element allow, whichever attributes come together     *)
(* (except a lower or an upper bound given twice).                         *)
RulesMeanTheMarkup ==
    phase = "ready" =>
       \A n \in Fields :
          Annotated(Element(n)) /\ Unambiguous(Element(n))
             => (Valid(n, value[n]) <=> Demanded(Element(n), value[n]))

(* Client and server differ over white space only: a form that was checked *)
(* is refused by the server's [Required] for no other reason.              *)
OnlyBlanksAreRefused ==
    phase = "sent" /\ options # Nothing =>
       \A n \in Refused : value[n] # <<>>
=============================================================================
