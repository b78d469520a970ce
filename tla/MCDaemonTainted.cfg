CONSTANTS
  f1 = f1
  f2 = f2
  a = a
  b = b
  c = c
  E1 = E1
  E2 = E2
  Gone = Gone
  Main = Main
  Files = {f1, f2}
  Names = {a, b, c}
  Effects = {E1, E2}
  FullRuns = {r1}
  Watched = {f1, f2}
  MaxVersion <- MCMaxVersion
  SourcesOf <- MCSourcesOf
SPECIFICATION Spec
INVARIANT
  TaintedMeansDependencyFailing
