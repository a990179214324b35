----------------------------- MODULE MCOperator -----------------------------
EXTENDS Operator
Crons == {"hourly", "daily", "never at all"}
Understood == {"hourly", "daily"}
=============================================================================
