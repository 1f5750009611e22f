---------------------------- MODULE MCBackOffice ----------------------------
(***************************************************************************)
(* The screens of the back office: the quotation desk, the forms whose money *)
(* is computed afresh at each save (of a quotation and of a hire), and the   *)
(* orders taken by phone.  They share no row, so a behaviour is one of the   *)
(* desk, one form, or one of the phone.                                     *)
(***************************************************************************)
EXTENDS MCQuotationDesk, QuotationMoney, HireMoney, ManualOrder

VARIABLE screen

Eighths == 1 .. 8

Alike == Interchangeable \cup Permutations(Keys)

OneScreenInit ==
  /\ DeskInit /\ MoneyInit /\ HireInit /\ ManualInit
  /\ screen \in {"desk", "quotation", "hire", "phone"}
  /\ screen # "desk" => priceStatus = "NOT_QUOTED"
  /\ screen # "phone" => form = [key \in Keys |-> "createEnquiry"]

OneScreenNext ==
  /\ \/ screen = "desk" /\ DeskNext /\ UNCHANGED <<quotes, hires, manualVars>>
     \/ screen = "quotation" /\ quotes = {} /\ MoneyNext /\ UNCHANGED <<allVars, hires, manualVars>>
     \/ screen = "hire" /\ hires = {} /\ ComputeHire /\ UNCHANGED <<allVars, quotes, manualVars>>
     \/ screen = "phone" /\ ManualNext /\ UNCHANGED <<allVars, quotes, hires>>
  /\ UNCHANGED screen

OneScreenSpec == OneScreenInit /\ [][OneScreenNext]_<<allVars, quotes, hires, manualVars, screen>>
=============================================================================
