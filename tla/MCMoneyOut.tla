----------------------------- MODULE MCMoneyOut -----------------------------
EXTENDS MoneyOut
=============================================================================
