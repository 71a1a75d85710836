CONSTANTS
  c1 = c1  c2 = c2  p1 = p1  p2 = p2
  Client = {c1, c2}
  Page = {p1, p2}
  Story = story  Root = root
  None = None
  Op = {"putStory", "put", "rename", "move", "deletePage", "deleteStory", "zip", "publish"}
  Chunk = 2
  Moves <- NumbersToMoveTo
  MaxRequests = 5
SPECIFICATION Spec
INVARIANTS StoryIsWhole PagesKept
PROPERTY PublishRestores
CHECK_DEADLOCK FALSE
SYMMETRY Symmetric
