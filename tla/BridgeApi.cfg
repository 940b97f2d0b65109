CONSTANTS
  Requests = {r1, r2, r3}
  Symbols = {btc, eth}
  Lots <- BuyTwoSellOne
  MaxTime = 3
SPECIFICATION Spec
SYMMETRY Symmetry
INVARIANTS CloseAllFlattens SettingsSurvive SettingsTakeEffect
CHECK_DEADLOCK FALSE
