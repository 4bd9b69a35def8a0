--------------------------- MODULE MCCalculations ---------------------------
(***************************************************************************)
(* Runs the pure parts of the portal over their inputs.  A behaviour edits *)
(* one kind of input, one field at a time, as its form does: the risk data *)
(* of a customer, a report to be exported, or an Emirates ID.              *)
(***************************************************************************)
EXTENDS MCRiskScoring, GoamlReport, EmiratesId, FiniteSets

VARIABLES form,    \* the kind of input of this behaviour
          filing,  \* a suspicious activity report
          edits,   \* the fields of filing that differ from the complete report
          text     \* what is typed as Emirates ID

calculations == <<input, form, filing, edits, text>>

CompleteTransaction == [date |-> "datetime", amount |-> "small", instrument |-> "cash"]

CompleteFiling ==
    [institution |-> "set", entity |-> "set", email |-> "set", phone |-> TRUE,
     reference |-> "set", reasons |-> {"STR"}, narrative |-> "full", window |-> "ordered",
     subject |-> "set", birth |-> "past", nationality |-> "set", idNumber |-> TRUE,
     idType |-> "listed", address |-> TRUE, transactions |-> <<CompleteTransaction>>,
     total |-> TRUE, markup |-> {}]

\* Two numbers, whose check digit is put right before they are typed.
Numbers == {<<7,8,4,1,9,9,9,0,1,2,3,4,5,6,7>>, <<7,8,4,1,9,8,5,0,9,0,9,9,0,0,0>>}

Repaired(number) == CHOOSE n \in {[number EXCEPT ![15] = d] : d \in 0..9} : LuhnCheck(n)

CalculationsInit ==
    /\ Init
    /\ form \in {"risk", "filing", "emirates_id"}
    /\ filing = CompleteFiling /\ edits = {}
    /\ text \in IF form = "emirates_id" THEN {Repaired(n) : n \in Numbers}
                                       ELSE {<<>>}
-----------------------------------------------------------------------------
\* Bound: a report differs from the complete one in at most two fields,
\* so that two errors can hide or cause each other.
MaxEdits == 2

Edit(field, value) ==
    /\ edits' = edits \cup {field}
    /\ Cardinality(edits') <= MaxEdits
    /\ filing' = [filing EXCEPT ![field] = value]

FillPresence ==
    \E field \in {"institution", "entity", "reference", "subject"}, value \in Presence :
        Edit(field, value)

FillContact == \/ \E value \in {"absent", "malformed"} : Edit("email", value)
               \/ \E field \in {"phone", "address"} : Edit(field, FALSE)

PickReasons == \E reasons \in {{}, {"TFS", "STR"}, {"TFS", "CTR"}, {"EFT", "unlisted"}} :
                   Edit("reasons", reasons)

WriteNarrative == \/ \E value \in {"short", "draft", "huge"} : Edit("narrative", value)
                  \/ \E value \in {"open", "malformed", "inverted"} : Edit("window", value)

DescribeSubject == \/ \E value \in {"absent", "malformed", "future"} : Edit("birth", value)
                   \/ \E value \in {"absent", "malformed"} : Edit("nationality", value)
                   \/ \E value \in {"absent", "unlisted"} : Edit("idType", value)
                   \/ Edit("idNumber", FALSE)

EditTransactions ==
    \/ Edit("transactions", <<>>)
    \/ \E t \in Transaction : Edit("transactions", <<t, CompleteTransaction>>)
    \/ Edit("total", FALSE)

TypeMarkup == \E typed \in Typed : Edit("markup", filing.markup \cup {typed})

FilingNext == \/ FillPresence \/ FillContact \/ PickReasons \/ WriteNarrative
              \/ DescribeSubject \/ EditTransactions \/ TypeMarkup
-----------------------------------------------------------------------------
\* Bound: at most three separators.
MaxSeparators == 3

TypeSeparator == /\ Len(text) < 15 + MaxSeparators
                 /\ \E i \in {0, 3, 7, 14, 15} :
                        text' = InsertAt(text, i + 1, Separator)

TypeAnother == \E d \in Digit : Len(text) = 15 /\ text' = [text EXCEPT ![15] = d]
-----------------------------------------------------------------------------
CalculationsNext ==
    /\ UNCHANGED form
    /\ \/ form = "risk" /\ Next /\ UNCHANGED <<filing, edits, text>>
       \/ form = "filing" /\ FilingNext /\ UNCHANGED <<input, text>>
       \/ form = "emirates_id" /\ (TypeSeparator \/ TypeAnother)
          /\ UNCHANGED <<input, filing, edits>>

CalculationsSpec == CalculationsInit /\ [][CalculationsNext]_calculations

FilingPassesRecheck == ExportPassesRecheck(filing)

TypoIsCaught == TypoCaught(text)
=============================================================================
