------------------------------ MODULE MCMoneyIn ------------------------------
EXTENDS MoneyIn
=============================================================================
