SPECIFICATION Spec
CONSTANT
  Typed <- Lines
INVARIANTS ExecutedAsMeant ErrorsAreCaught NumbersReadBack
 
