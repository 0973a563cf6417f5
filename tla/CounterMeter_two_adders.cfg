SPECIFICATION CounterSpec
CONSTANTS
  Adders = {a1, a2}
  Measurers = {sender}
  Deltas = {0, 1, 3}
  MaxAdds = 3
INVARIANT CountConserved
