SPECIFICATION Spec
CONSTANT None = None
INVARIANTS Delivered Entitled AnswerIsTrue
