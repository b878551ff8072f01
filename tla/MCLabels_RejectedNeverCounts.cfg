CONSTANTS
  Tx = {"pay", "wage"}
  Ident = {"card", "iban"}
  Contact = {"boss", "shop"}
  Category = {"food", "salary", "bank"}
  Rule = {"fees"}
  Idents <- MCIdents
  NameOf <- MCNameOf
  Deposit = {"wage"}
  Declared = {}
  AliasMatch = {"pay"}
  RuleOrder <- MCRuleOrder
  Matches <- MCMatches
  RuleCategory <- MCRuleCategory
  AskingRules = {}
  SystemRules = {"fees"}
  Session = {s1, s2}
  Statement = {{"pay", "wage"}}
  Naming = {{"pay", "wage"}}
  Imported = {"wage"}
  Edited = {"wage"}
  Chosen = {"food"}
  Earned = {"salary"}
  MayFail = FALSE
  MaxRequests = 3
SYMMETRY Symmetry
SPECIFICATION Spec
CHECK_DEADLOCK FALSE
PROPERTY RejectedNeverCounts
