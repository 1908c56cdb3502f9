INIT Init
NEXT Next
CONSTANTS
  Amounts = {500, 50000, 1711000001}
  Mobiles = {"mobile1","mobile2"}
  Others = {"account","piece"}
  Digits <- MCDigits
  Own = {"savings","current"}
  Cards = {"gold","blue"}
  None = None
  Messages <- MCMessages
  Products = {"salary", "gold", "blue", "dps"}
  ProductKinds = {"debit", "credit", "deposit"}
  CardKinds = {"debit", "credit"}
  KindOf <- MCKindOf
  Screens = {"card", "credit_card", "dps"}
  ScreenOf <- MCScreenOf
  MinIncome <- MCMinIncome
  Incomes = {4}
  People = {"rahim", "rahima", "club"}
  SavedAs <- MCSavedAs
  NameOf <- MCNameOf
  Words = {"Rahim", "Rahima", "Club", "Jahid"}
  TextMatch <- MCTextMatch
  Requests <- MCRequests
  MaxPicks = 2
INVARIANTS TypeOK DetailsAreTheirs NewNumberWins ApplyRespectsSwitch SuggestionsMeetTheirFigures
PROPERTY GatheredIsKept
