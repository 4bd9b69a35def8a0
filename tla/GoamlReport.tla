---------------------------- MODULE GoamlReport ----------------------------
(***************************************************************************)
(* Rendering a suspicious activity report for the FIU: validateForGoaml on *)
(* the data, buildSarXml, and validateGoamlXml on the text that was built, *)
(* as pure operators (goaml-validator.ts, goaml-builder.ts, goaml-codes.ts)*)
(*                                                                         *)
(* A field is reduced to what the checks tell apart.  An XML document is   *)
(* the set of its elements, the values that the second check reads, and    *)
(* the fields that were written without escaping.                          *)
(***************************************************************************)
EXTENDS Integers, Sequences

Mode == {"draft", "export", "submit"}
Presence == {"absent", "blank", "set"}
ReasonCode == {"UNK", "STR", "CTR", "TFS", "EFT", "CASH"}  \* GOAML_REASON_CODES
ReportCode == {"STR", "CTR", "TFS-STR", "EFT", "AIF"}      \* GOAML_REPORT_CODES
Instrument == {"cash", "wire", "cheque", "card", "crypto"}
TransmodeCode == {"CASH", "WIRE", "CHEQUE", "CARD", "CRYPTO", "OTHER"}

\* The texts a user can type, any of which may hold <, >, & or quotes.
Typed == {"institution", "entity", "reference", "narrative", "subject", "transaction"}

\* amount: "max" is GOAML_AMOUNT_MAX, which is 1e16 once it is a double.
Transaction == [date : {"absent", "malformed", "datetime", "future"},
                amount : {"nan", "negative", "small", "max", "over"},
                instrument : Instrument \cup {"unknown"}]

\* narrative: below 20, below 50, up to 50000 characters, and above; reasons: with
\* codes that are not in the list; total: it is within 0.01 of the sum.
Filing == [institution : Presence, entity : Presence, email : {"absent", "malformed", "set"},
           phone : BOOLEAN, reference : Presence,
           reasons : SUBSET (ReasonCode \cup {"unlisted"}),
           narrative : {"short", "draft", "full", "huge"},
           window : {"open", "ordered", "malformed", "inverted"},
           subject : Presence, birth : {"absent", "malformed", "past", "future"},
           nationality : {"absent", "malformed", "set"}, idNumber : BOOLEAN,
           idType : {"absent", "unlisted", "listed"}, address : BOOLEAN,
           transactions : Seq(Transaction), total : BOOLEAN, markup : SUBSET Typed]
-----------------------------------------------------------------------------
Error(code, condition) == IF condition THEN {code} ELSE {}

InstitutionErrors(f, mode) ==
    Error("institution_name_required", f.institution # "set")
    \cup Error("rentity_id_required", f.entity # "set" /\ mode \in {"submit", "export"})
    \cup Error("contact_email_invalid", f.email = "malformed")

MapReasonToReportCode(reasons) ==
    IF "CTR" \in reasons THEN "CTR" ELSE IF "TFS" \in reasons THEN "TFS-STR" ELSE "STR"

EnvelopeErrors(f, mode) ==
    Error("reference_number_required", f.reference # "set")
    \cup Error("reason_codes_required", f.reasons = {})
    \cup Error("reason_code_invalid", ~(f.reasons \subseteq ReasonCode))
    \cup Error("report_code_invalid", MapReasonToReportCode(f.reasons) \notin ReportCode)
    \cup Error("narrative_too_short",
               \/ f.narrative = "short"
               \/ f.narrative = "draft" /\ mode \in {"submit", "export"})
    \cup Error("narrative_too_long", f.narrative = "huge")
    \cup Error("activity_window", f.window \in {"malformed", "inverted"})

SubjectErrors(f) ==
    Error("subject_name_required", f.subject # "set")
    \cup Error("subject_dob_invalid", f.birth \in {"malformed", "future"})
    \cup Error("subject_nationality_invalid", f.nationality = "malformed")
    \cup Error("subject_id_type_missing", f.idNumber /\ f.idType = "absent")
    \cup Error("subject_id_number_missing", ~f.idNumber /\ f.idType # "absent")
    \cup Error("subject_id_type_invalid", f.idType = "unlisted")

MapInstrumentToTransmodeCode(instrument) ==
    CASE instrument = "cash"   -> "CASH"
      [] instrument = "wire"   -> "WIRE"
      [] instrument = "cheque" -> "CHEQUE"
      [] instrument = "card"   -> "CARD"
      [] instrument = "crypto" -> "CRYPTO"
      [] OTHER                 -> "OTHER"

TransactionErrors(t) ==
    Error("tx_date_invalid", t.date # "datetime")
    \cup Error("tx_amount_invalid", t.amount \notin {"small", "max"})
    \cup Error("tx_transmode_invalid",
               MapInstrumentToTransmodeCode(t.instrument) \notin TransmodeCode)

ValidateTransactions(f) ==
    (UNION {TransactionErrors(f.transactions[i]) : i \in DOMAIN f.transactions})
    \cup Error("total_amount_mismatch", ~f.total)

ValidateForGoaml(f, mode) ==
    InstitutionErrors(f, mode) \cup EnvelopeErrors(f, mode) \cup SubjectErrors(f)
    \cup ValidateTransactions(f)
-----------------------------------------------------------------------------
ReportRequiredChildren ==
    {"rentity_id", "submission_code", "report_code", "entity_reference", "submission_date",
     "currency_code_local", "reporting_person", "reason", "action", "report_indicators"}

TransactionRequiredChildren ==
    {"transactionnumber", "transaction_location", "date_transaction", "transmode_code",
     "amount_local"}

\* Bug: the escaping stops at the text of a transaction.
XmlEscapeIncompleteBug(fields) == fields \cap {"transaction"}

\* xmlEscape replaces the five markup characters in every value: nothing stays raw.
XmlEscape(fields) == {}

\* toFixed(2): digits before the point, 0 for a text that is not a number.
PrintedDigits(amount) == CASE amount = "small" -> 16
                           [] amount = "max"   -> 17
                           [] amount = "over"  -> 22
                           [] OTHER            -> 0

RenderTransaction(t) ==
    [children |-> TransactionRequiredChildren, date |-> t.date,
     transmode |-> MapInstrumentToTransmodeCode(t.instrument),
     digits |-> PrintedDigits(t.amount)]

\* The entity is written when it is not the empty string, so also when blank.
BuildSarXml(f) ==
    [children |-> (ReportRequiredChildren \ {"rentity_id"})
                  \cup Error("rentity_id", f.entity # "absent"),
     code |-> MapReasonToReportCode(f.reasons),
     transactions |-> [i \in DOMAIN f.transactions |-> RenderTransaction(f.transactions[i])],
     raw |-> XmlEscape(f.markup)]

RecheckTransaction(t) ==
    Error("xml_missing_required_tx_child", ~(TransactionRequiredChildren \subseteq t.children))
    \cup Error("xml_tx_date_invalid", t.date = "malformed")
    \cup Error("xml_tx_transmode_invalid", t.transmode \notin TransmodeCode)
    \cup Error("xml_tx_amount_invalid", t.digits \notin 1..18)

\* Markup left in a value is taken for a tag, and parseXml fails.
ValidateGoamlXml(x) ==
    Error("xml_parse_failed", x.raw # {})
    \cup Error("xml_missing_required_child", ~(ReportRequiredChildren \subseteq x.children))
    \cup Error("xml_report_code_invalid", x.code \notin ReportCode)
    \cup (UNION {RecheckTransaction(x.transactions[i]) : i \in DOMAIN x.transactions})
-----------------------------------------------------------------------------
\* service.ts, exportSarAsXml: "If the builder ever drifts from the validator this
\* catches it before the file leaves our system".  The three parts agree: whatever the
\* data, a report accepted for export is built into a text that passes the second
\* check, so a user who sees no error gets a file.
ExportPassesRecheck(f) ==
    ValidateForGoaml(f, "export") = {} => ValidateGoamlXml(BuildSarXml(f)) = {}
=============================================================================
